---------------------------- MODULE Spec2Model ----------------------------
(***************************************************************************)
(* Model of the multi-agent healthcare router:                             *)
(*   - extract_state_from_prompt  (server/fastapi_agent_server.py)         *)
(*   - AgentOrchestrator._fallback_classify, classify_query,               *)
(*     route_to_health_agent, route_to_insurance_agent, process_query      *)
(*     (server/agent_orchestrator.py)                                      *)
(*   - doctor_search, handle_jsonrpc  (server/mcpserver.py)                *)
(*   - query_endpoint  (server/fastapi_agent_server.py)                    *)
(*   - query  (client/web_client.py)                                       *)
(* Texts are TLA+ strings handled character by character (Len, SubSeq,     *)
(* \o), so that lower(), upper(), substring containment, split() and the   *)
(* regular expressions are computed the way Python computes them.          *)
(***************************************************************************)
EXTENDS Integers, Sequences, FiniteSets, TLC

VARIABLES
    \* --- extract_state_from_prompt: one call ---
    prompt,        \* the argument (PyNone for None)
    epc,           \* "call" before the call, "returned" after it
    state_code,    \* the returned value (PyNone for None)
    step,          \* the step that produced it: "name", "pattern", "standalone", "none"
    \* --- the classifier: one call of _fallback_classify or of classify_query ---
    query,         \* the query argument
    location,      \* the location argument
    cpc,           \* "call", then "fallback_returned" or "classify_returned"
    llm,           \* what the router LLM did in the classify_query call
    classification,\* the call's outcome: [raised, query_type, confidence, reasoning]
    \* --- process_query: one call ---
    force_agent,   \* the force_agent argument (PyNone for None)
    pc,            \* the position of the call
    decision,      \* (query_type, confidence, reasoning) once decided
    classify_calls,  \* the number of calls of classify_query
    health_calls,    \* the argument lists of the calls of route_to_health_agent
    insurance_calls, \* the argument lists of the calls of route_to_insurance_agent
    result,        \* the dict the route returned
    exchange,      \* what the downstream agent did in the route's exchange with it
    exception,     \* the message of the exception the top-level handler caught
    answer,        \* the QueryResponse returned
    outcome,       \* "pending", "returned", or "raised" (to the caller)
    \* --- several process_query calls on the one orchestrator ---
    calls,         \* the calls in flight: for each its arguments, position and results
    chat_messages, \* the conversation the user proxy and the router agent keep
    \* --- repeated calls of _fallback_classify on the one orchestrator ---
    fallback_returns, \* the pairs <<query, returned triple>> of the calls made so far
    \* --- the services around the orchestrator: one request each ---
    mcp,           \* the MCP server: the request, the position and the response
    health,        \* the health server's POST /query: request, position, response
    web            \* the web client's POST /query: request, position, response

extract_vars == <<prompt, epc, state_code, step>>
classify_vars == <<cpc, llm, classification>>
orchestrator_vars == <<force_agent, pc, decision, classify_calls, health_calls,
                       insurance_calls, result, exchange, exception, answer, outcome>>
service_vars == <<calls, chat_messages, fallback_returns, mcp, health, web>>
vars == <<prompt, epc, state_code, step, query, location, cpc, llm, classification,
          force_agent, pc, decision, classify_calls, health_calls, insurance_calls,
          result, exchange, exception, answer, outcome,
          calls, chat_messages, fallback_returns, mcp, health, web>>

(***************************************************************************)
(* Python values                                                           *)
(***************************************************************************)
\* None: a value distinct from every text the model builds
PyNone == "<None>"

(***************************************************************************)
(* str primitives                                                          *)
(***************************************************************************)
UpperLetters == "ABCDEFGHIJKLMNOPQRSTUVWXYZ"
LowerLetters == "abcdefghijklmnopqrstuvwxyz"
Digits == "0123456789"

CharAt(s, i) == SubSeq(s, i, i)

UpperSet == {CharAt(UpperLetters, i) : i \in 1..Len(UpperLetters)}
LowerSet == {CharAt(LowerLetters, i) : i \in 1..Len(LowerLetters)}
DigitSet == {CharAt(Digits, i) : i \in 1..Len(Digits)}

\* the lower-case form of each upper-case letter, and the converse
LowerOf == [c \in UpperSet |->
              CharAt(LowerLetters, CHOOSE i \in 1..Len(UpperLetters) : CharAt(UpperLetters, i) = c)]
UpperOf == [c \in LowerSet |->
              CharAt(UpperLetters, CHOOSE i \in 1..Len(LowerLetters) : CharAt(LowerLetters, i) = c)]

lower_char(c) == IF c \in UpperSet THEN LowerOf[c] ELSE c

upper_char(c) == IF c \in LowerSet THEN UpperOf[c] ELSE c

\* str.lower()
RECURSIVE lower(_)
lower(s) ==
    IF Len(s) = 0 THEN ""
    ELSE lower_char(CharAt(s, 1)) \o lower(SubSeq(s, 2, Len(s)))

\* str.upper()
RECURSIVE upper(_)
upper(s) ==
    IF Len(s) = 0 THEN ""
    ELSE upper_char(CharAt(s, 1)) \o upper(SubSeq(s, 2, Len(s)))

\* Python's "sub in s" on strings
In(sub, s) ==
    \E i \in 1..(Len(s) - Len(sub) + 1) : SubSeq(s, i, i + Len(sub) - 1) = sub

IsSpace(c) == c = " " \/ c = "\t" \/ c = "\n"

\* len(s.split()): the number of maximal runs of non-whitespace characters
split_len(s) ==
    Cardinality({i \in 1..Len(s) :
        /\ ~IsSpace(CharAt(s, i))
        /\ (i = 1 \/ IsSpace(CharAt(s, i - 1)))})

(***************************************************************************)
(* re: the subset of regular expressions the program uses.  A pattern is a *)
(* sequence of elements:                                                   *)
(*   [t |-> "b"]            \b                                             *)
(*   [t |-> "lit", s |-> x] the literal text x (case-sensitive: no flags)  *)
(*   [t |-> "ws"]           \s+                                            *)
(*   [t |-> "cap"]          ([A-Z]{2})                                     *)
(*   [t |-> "opt", s |-> x] x?                                             *)
(***************************************************************************)
B == [t |-> "b", s |-> ""]
Lit(x) == [t |-> "lit", s |-> x]
Ws == [t |-> "ws", s |-> ""]
Cap == [t |-> "cap", s |-> ""]
Opt(x) == [t |-> "opt", s |-> x]

IsWordChar(c) == c \in UpperSet \/ c \in LowerSet \/ c \in DigitSet \/ c = "_"

\* \b between text[pos-1] and text[pos]
AtBoundary(text, pos) ==
    LET before == pos > 1 /\ IsWordChar(CharAt(text, pos - 1))
        after == pos <= Len(text) /\ IsWordChar(CharAt(text, pos))
    IN  before # after

NoMatch == [ok |-> FALSE, end |-> 0, cap |-> ""]

\* length of the whitespace run that starts at pos
RECURSIVE ws_run(_, _)
ws_run(text, pos) ==
    IF pos <= Len(text) /\ IsSpace(CharAt(text, pos))
    THEN 1 + ws_run(text, pos + 1)
    ELSE 0

\* match pattern elements k.. at position pos (backtracking, greedy first);
\* end is the position after the match
RECURSIVE re_match(_, _, _, _, _)
re_match(pat, k, text, pos, cap) ==
    IF k > Len(pat) THEN [ok |-> TRUE, end |-> pos, cap |-> cap]
    ELSE LET e == pat[k] IN
      CASE e.t = "b" ->
             IF AtBoundary(text, pos) THEN re_match(pat, k + 1, text, pos, cap)
             ELSE NoMatch
        [] e.t = "lit" ->
             IF pos + Len(e.s) - 1 <= Len(text) /\ SubSeq(text, pos, pos + Len(e.s) - 1) = e.s
             THEN re_match(pat, k + 1, text, pos + Len(e.s), cap)
             ELSE NoMatch
        [] e.t = "ws" ->
             LET run == ws_run(text, pos)
                 good == {n \in 1..run : re_match(pat, k + 1, text, pos + n, cap).ok}
             IN  IF good = {} THEN NoMatch
                 ELSE re_match(pat, k + 1, text,
                               pos + (CHOOSE n \in good : \A m \in good : m <= n), cap)
        [] e.t = "cap" ->
             IF /\ pos + 1 <= Len(text)
                /\ CharAt(text, pos) \in UpperSet
                /\ CharAt(text, pos + 1) \in UpperSet
             THEN re_match(pat, k + 1, text, pos + 2, SubSeq(text, pos, pos + 1))
             ELSE NoMatch
        [] OTHER ->  \* "opt"
             LET with == IF pos + Len(e.s) - 1 <= Len(text)
                            /\ SubSeq(text, pos, pos + Len(e.s) - 1) = e.s
                         THEN re_match(pat, k + 1, text, pos + Len(e.s), cap)
                         ELSE NoMatch
             IN  IF with.ok THEN with ELSE re_match(pat, k + 1, text, pos, cap)

\* re.findall(pattern, text) for a pattern with one group: the captures of the
\* non-overlapping matches, found from left to right
RECURSIVE re_findall_from(_, _, _)
re_findall_from(pat, text, pos) ==
    IF pos > Len(text) THEN <<>>
    ELSE LET r == re_match(pat, 1, text, pos, "") IN
         IF r.ok
         THEN <<r.cap>> \o re_findall_from(pat, text, IF r.end > pos THEN r.end ELSE pos + 1)
         ELSE re_findall_from(pat, text, pos + 1)

re_findall(pat, text) == re_findall_from(pat, text, 1)

(***************************************************************************)
(* extract_state_from_prompt                                               *)
(***************************************************************************)
\* the dict state_names, in insertion order
state_names == <<
    <<"california", "CA">>, <<"texas", "TX">>, <<"florida", "FL">>, <<"new york", "NY">>,
    <<"pennsylvania", "PA">>, <<"illinois", "IL">>, <<"ohio", "OH">>, <<"georgia", "GA">>,
    <<"north carolina", "NC">>, <<"michigan", "MI">>, <<"new jersey", "NJ">>, <<"virginia", "VA">>,
    <<"washington", "WA">>, <<"arizona", "AZ">>, <<"massachusetts", "MA">>, <<"tennessee", "TN">>,
    <<"indiana", "IN">>, <<"missouri", "MO">>, <<"maryland", "MD">>, <<"wisconsin", "WI">>,
    <<"colorado", "CO">>, <<"minnesota", "MN">>, <<"south carolina", "SC">>, <<"alabama", "AL">>,
    <<"louisiana", "LA">>, <<"kentucky", "KY">>, <<"oregon", "OR">>, <<"oklahoma", "OK">>,
    <<"connecticut", "CT">>, <<"utah", "UT">>, <<"iowa", "IA">>, <<"nevada", "NV">>,
    <<"arkansas", "AR">>, <<"mississippi", "MS">>, <<"kansas", "KS">>, <<"new mexico", "NM">>,
    <<"nebraska", "NE">>, <<"west virginia", "WV">>, <<"idaho", "ID">>, <<"hawaii", "HI">>,
    <<"new hampshire", "NH">>, <<"maine", "ME">>, <<"montana", "MT">>, <<"rhode island", "RI">>,
    <<"delaware", "DE">>, <<"south dakota", "SD">>, <<"north dakota", "ND">>, <<"alaska", "AK">>,
    <<"vermont", "VT">>, <<"wyoming", "WY">> >>

valid_state_codes == {state_names[i][2] : i \in 1..Len(state_names)}

\* a plausible slip: the words that are state codes were left out of the list
excluded_words_without_codes == {
    "us", "am", "is", "it", "to", "at", "an", "as", "be", "by",
    "do", "go", "he", "if", "my", "no", "of", "on", "so", "up", "we" }

excluded_words == {
    "me", "us", "am", "is", "it", "to", "in", "or", "at", "an", "as", "be", "by",
    "do", "go", "he", "if", "my", "no", "of", "on", "so", "up", "we"}

\* sorted(items, key=lambda x: len(x[0]), reverse=True): a stable sort, so that
\* items of equal length keep their order
RECURSIVE sorted_by_len_desc(_)
sorted_by_len_desc(items) ==
    IF Len(items) = 0 THEN <<>>
    ELSE LET m == CHOOSE i \in 1..Len(items) :
                    /\ \A j \in 1..Len(items) : Len(items[j][1]) <= Len(items[i][1])
                    /\ \A j \in 1..(i - 1) : Len(items[j][1]) < Len(items[i][1])
         IN  <<items[m]>> \o sorted_by_len_desc(
                 [j \in 1..(Len(items) - 1) |-> IF j < m THEN items[j] ELSE items[j + 1]])

\* a plausible slip: the names are tried in table order, not longest first
sorted_states_in_table_order == state_names

sorted_states == sorted_by_len_desc(state_names)

\* first element of the sequence that satisfies the test of the loop, else None
RECURSIVE first_name_match(_, _, _)
first_name_match(names, k, prompt_lower) ==
    IF k > Len(names) THEN PyNone
    ELSE IF In(names[k][1], prompt_lower) THEN names[k][2]
    ELSE first_name_match(names, k + 1, prompt_lower)

\* step 1: for state_name, state_code in sorted_states
full_name_step(p) == first_name_match(sorted_states, 1, lower(p))

state_code_patterns == <<
    <<B, Lit("in"), Ws, Cap, B>>,
    <<B, Lit("from"), Ws, Cap, B>>,
    <<B, Lit("state"), Ws, Cap, B>>,
    <<B, Lit("of"), Ws, Cap, B>>,
    <<B, Lit("live"), Ws, Lit("in"), Ws, Cap, B>>,
    <<B, Lit("doctor"), Opt("s"), Ws, Lit("in"), Ws, Cap, B>>,
    <<B, Cap, Ws, Lit("doctor"), Opt("s"), B>>,
    <<B, Cap, Ws, Lit("area"), B>>,
    <<B, Cap, Ws, Lit("state"), B>> >>

standalone_pattern == <<B, Cap, B>>

\* a plausible slip: the capture is not checked against excluded_words
code_accepted_without_exclusion(match) == match \in valid_state_codes

\* the test both loops apply to a capture
code_accepted(match) == match \in valid_state_codes /\ lower(match) \notin excluded_words

\* for match in matches: the first accepted capture, else None
RECURSIVE first_accepted(_, _)
first_accepted(matches, k) ==
    IF k > Len(matches) THEN PyNone
    ELSE IF code_accepted(matches[k]) THEN matches[k]
    ELSE first_accepted(matches, k + 1)

\* step 2: for i, pattern in enumerate(state_code_patterns, 1)
RECURSIVE pattern_step_from(_, _)
pattern_step_from(prompt_upper, i) ==
    IF i > Len(state_code_patterns) THEN PyNone
    ELSE LET m == first_accepted(re_findall(state_code_patterns[i], prompt_upper), 1)
         IN  IF m # PyNone THEN m ELSE pattern_step_from(prompt_upper, i + 1)

pattern_step(p) == pattern_step_from(upper(p), 1)

\* the word limit of the standalone step
MaxStandaloneWords == 5

\* a plausible slip: the standalone step does not look at the length of the prompt
standalone_accepted_any_length(p) == TRUE

\* len(prompt_words) <= 5
standalone_accepted(p) == split_len(p) <= MaxStandaloneWords

\* step 3: standalone codes, in a prompt of at most 5 words
standalone_step(p) ==
    IF standalone_accepted(p)
    THEN first_accepted(re_findall(standalone_pattern, upper(p)), 1)
    ELSE PyNone

\* "if not prompt"
falsy(p) == p = PyNone \/ p = ""

\* the call: [code, step]
extract_result(p) ==
    IF falsy(p) THEN [code |-> PyNone, step |-> "none"]
    ELSE LET n == full_name_step(p) IN
         IF n # PyNone THEN [code |-> n, step |-> "name"]
         ELSE LET c == pattern_step(p) IN
              IF c # PyNone THEN [code |-> c, step |-> "pattern"]
              ELSE LET s == standalone_step(p) IN
                   IF s # PyNone THEN [code |-> s, step |-> "standalone"]
                   ELSE [code |-> PyNone, step |-> "none"]

extract_state_from_prompt(p) == extract_result(p).code

(***************************************************************************)
(* AgentOrchestrator._fallback_classify                                    *)
(***************************************************************************)
\* QueryType
HEALTH_DOCTOR == "health_doctor"
INSURANCE == "insurance"
UNKNOWN == "unknown"

health_keywords == <<
    "doctor", "physician", "medical", "healthcare", "hospital", "clinic",
    "specialist", "symptoms", "treatment", "diagnosis", "medication",
    "prescription", "find doctor", "medical help", "health issue",
    "cardiology", "pediatrics", "dermatology", "neurology", "orthopedic",
    "cardiologist", "pediatrician", "dermatologist", "neurologist" >>

provider_seeking_phrases == <<
    "find me a doctor", "looking for a doctor", "need a doctor",
    "find me a specialist", "looking for a specialist", "need a specialist",
    "find doctor", "find specialist", "doctor that accepts",
    "specialist in my network", "doctor in my area", "find a doctor" >>

strong_insurance_phrases == <<
    "covered by", "insurance cover", "insurance pay",
    "insurance benefits", "policy coverage",
    "does my plan cover", "will insurance pay", "insurance reimbursement",
    "my deductible", "insurance details", "my insurance coverage",
    "what are my insurance", "check my policy" >>

insurance_keywords == <<
    "insurance", "coverage", "covered", "policy", "claim", "benefits",
    "deductible", "copay", "premium", "plan", "benefit",
    "pays for", "reimburse", "out of pocket", "reimbursement" >>

seeking_context_words == <<"find", "looking for", "need a", "search for">>

coverage_context_words == <<"covered", "cover", "pay", "benefits", "reimburse">>

\* sum(1 for phrase in phrases if phrase in query_lower)
count_in(phrases, query_lower) ==
    Cardinality({i \in 1..Len(phrases) : In(phrases[i], query_lower)})

\* any(word in query_lower for word in words)
any_in(words, query_lower) == \E i \in 1..Len(words) : In(words[i], query_lower)

\* a returned (query_type, confidence, reasoning); raised: the call raised instead
Returns(t, c, r) == [raised |-> FALSE, query_type |-> t, confidence |-> c, reasoning |-> r]
Raises(e) == [raised |-> TRUE, query_type |-> "", confidence |-> "", reasoning |-> e]

\* a plausible slip: in a mixed query the coverage words are looked for first
keyword_scoring_coverage_first(query_lower) ==
    LET insurance_score == count_in(insurance_keywords, query_lower)
        health_score == count_in(health_keywords, query_lower)
    IN  IF insurance_score > 0 /\ health_score > 0
           /\ any_in(coverage_context_words, query_lower)
        THEN Returns(INSURANCE, "0.7",
                 "Mixed query - coverage context: insurance=" \o ToString(insurance_score)
                 \o ", health=" \o ToString(health_score))
        ELSE IF insurance_score > 0 /\ health_score > 0
                /\ any_in(seeking_context_words, query_lower)
        THEN Returns(HEALTH_DOCTOR, "0.7",
                 "Mixed query - provider seeking context: health=" \o ToString(health_score)
                 \o ", insurance=" \o ToString(insurance_score))
        ELSE IF insurance_score > 0
        THEN Returns(INSURANCE, "0.7", "Insurance keywords found: " \o ToString(insurance_score))
        ELSE IF health_score > 0
        THEN Returns(HEALTH_DOCTOR, "0.7", "Health keywords found: " \o ToString(health_score))
        ELSE Returns(HEALTH_DOCTOR, "0.3", "Default to health agent")

\* a plausible slip: the standard classification tests health_score first
keyword_scoring_health_first(query_lower) ==
    LET insurance_score == count_in(insurance_keywords, query_lower)
        health_score == count_in(health_keywords, query_lower)
    IN  IF insurance_score > 0 /\ health_score > 0 /\ any_in(seeking_context_words, query_lower)
        THEN Returns(HEALTH_DOCTOR, "0.7",
                 "Mixed query - provider seeking context: health=" \o ToString(health_score)
                 \o ", insurance=" \o ToString(insurance_score))
        ELSE IF insurance_score > 0 /\ health_score > 0
                /\ any_in(coverage_context_words, query_lower)
        THEN Returns(INSURANCE, "0.7",
                 "Mixed query - coverage context: insurance=" \o ToString(insurance_score)
                 \o ", health=" \o ToString(health_score))
        ELSE IF health_score > 0
        THEN Returns(HEALTH_DOCTOR, "0.7", "Health keywords found: " \o ToString(health_score))
        ELSE IF insurance_score > 0
        THEN Returns(INSURANCE, "0.7", "Insurance keywords found: " \o ToString(insurance_score))
        ELSE Returns(HEALTH_DOCTOR, "0.3", "Default to health agent")

\* weighted keyword scoring, with the mixed-signal context check
keyword_scoring(query_lower) ==
    LET insurance_score == count_in(insurance_keywords, query_lower)
        health_score == count_in(health_keywords, query_lower)
    IN  IF insurance_score > 0 /\ health_score > 0 /\ any_in(seeking_context_words, query_lower)
        THEN Returns(HEALTH_DOCTOR, "0.7",
                 "Mixed query - provider seeking context: health=" \o ToString(health_score)
                 \o ", insurance=" \o ToString(insurance_score))
        ELSE IF insurance_score > 0 /\ health_score > 0
                /\ any_in(coverage_context_words, query_lower)
        THEN Returns(INSURANCE, "0.7",
                 "Mixed query - coverage context: insurance=" \o ToString(insurance_score)
                 \o ", health=" \o ToString(health_score))
        ELSE IF insurance_score > 0
        THEN Returns(INSURANCE, "0.7", "Insurance keywords found: " \o ToString(insurance_score))
        ELSE IF health_score > 0
        THEN Returns(HEALTH_DOCTOR, "0.7", "Health keywords found: " \o ToString(health_score))
        ELSE Returns(HEALTH_DOCTOR, "0.3", "Default to health agent")

\* a plausible slip: a health keyword sends the query on to keyword scoring
strong_insurance_tier_unless_health(query_lower) ==
    LET strong_insurance_count == count_in(strong_insurance_phrases, query_lower)
    IN  IF strong_insurance_count > 0 /\ count_in(health_keywords, query_lower) = 0
        THEN Returns(INSURANCE, "0.8",
                 "Strong insurance indicators found: " \o ToString(strong_insurance_count))
        ELSE keyword_scoring(query_lower)

\* strong insurance indicators, checked after the provider-seeking phrases
strong_insurance_tier(query_lower) ==
    LET strong_insurance_count == count_in(strong_insurance_phrases, query_lower)
    IN  IF strong_insurance_count > 0
        THEN Returns(INSURANCE, "0.8",
                 "Strong insurance indicators found: " \o ToString(strong_insurance_count))
        ELSE keyword_scoring(query_lower)

\* the provider-seeking phrases, checked first
provider_seeking_tier(query_lower) ==
    LET provider_seeking_count == count_in(provider_seeking_phrases, query_lower)
    IN  IF provider_seeking_count > 0
        THEN Returns(HEALTH_DOCTOR, "0.8",
                 "Provider seeking phrases found: " \o ToString(provider_seeking_count))
        ELSE strong_insurance_tier(query_lower)

\* a plausible slip: the strong insurance indicators are checked before the
\* provider-seeking phrases
fallback_classify_insurance_first(q) ==
    LET query_lower == lower(q)
        strong_insurance_count == count_in(strong_insurance_phrases, query_lower)
    IN  IF strong_insurance_count > 0
        THEN Returns(INSURANCE, "0.8",
                 "Strong insurance indicators found: " \o ToString(strong_insurance_count))
        ELSE provider_seeking_tier(query_lower)

\* a plausible slip: a query without any keyword is given the category UNKNOWN
fallback_classify_unknown_default(q) ==
    LET returned == provider_seeking_tier(lower(q))
    IN  IF returned.confidence = "0.3"
        THEN Returns(UNKNOWN, "0.3", "Default to health agent")
        ELSE returned

_fallback_classify(q) == provider_seeking_tier(lower(q))

(***************************************************************************)
(* AgentOrchestrator.classify_query                                        *)
(***************************************************************************)
\* str.strip()
RECURSIVE lstrip(_)
lstrip(s) ==
    IF Len(s) > 0 /\ IsSpace(CharAt(s, 1)) THEN lstrip(SubSeq(s, 2, Len(s))) ELSE s

RECURSIVE rstrip(_)
rstrip(s) ==
    IF Len(s) > 0 /\ IsSpace(CharAt(s, Len(s))) THEN rstrip(SubSeq(s, 1, Len(s) - 1)) ELSE s

strip(s) == rstrip(lstrip(s))

\* the prompt sent to the router agent
classification_prompt(q, loc) ==
    LET full_query == IF loc # "" THEN "Location: " \o loc \o "\nQuery: " \o q ELSE q
    IN  "Classify this user query: \"" \o full_query
        \o "\"\n            \n            Respond with ONLY one of: HEALTH_DOCTOR or INSURANCE"

(* What the router LLM does with the prompt:                               *)
(*   "reply"      chat_history[-1]["content"] is the text content          *)
(*   "raise"      initiate_chat raises (transport error, API error, the    *)
(*                30 s timeout of llm_config)                              *)
(*   "no_history" chat_history is empty: IndexError                        *)
(*   "no_content" the content is None: AttributeError                      *)
Reply(text) == [kind |-> "reply", content |-> text]
LLMFailure(kind) == [kind |-> kind, content |-> ""]

\* a plausible slip: no try/except around the LLM call
classify_query_unguarded(q, loc, o) ==
    IF o.kind # "reply" THEN Raises(o.kind)
    ELSE LET response == upper(strip(o.content)) IN
         IF In("HEALTH_DOCTOR", response)
         THEN Returns(HEALTH_DOCTOR, "0.8", "Query contains health/medical keywords")
         ELSE IF In("INSURANCE", response)
         THEN Returns(INSURANCE, "0.8", "Query contains insurance-related keywords")
         ELSE _fallback_classify(q)

\* a plausible slip: the reply is searched for the insurance label first
classify_query_insurance_label_first(q, loc, o) ==
    IF o.kind # "reply"
    THEN _fallback_classify(q)
    ELSE LET response == upper(strip(o.content)) IN
         IF In("INSURANCE", response)
         THEN Returns(INSURANCE, "0.8", "Query contains insurance-related keywords")
         ELSE IF In("HEALTH_DOCTOR", response)
         THEN Returns(HEALTH_DOCTOR, "0.8", "Query contains health/medical keywords")
         ELSE _fallback_classify(q)

classify_query(q, loc, o) ==
    IF o.kind # "reply"
    THEN _fallback_classify(q)        \* except Exception
    ELSE LET response == upper(strip(o.content)) IN
         IF In("HEALTH_DOCTOR", response)
         THEN Returns(HEALTH_DOCTOR, "0.8", "Query contains health/medical keywords")
         ELSE IF In("INSURANCE", response)
         THEN Returns(INSURANCE, "0.8", "Query contains insurance-related keywords")
         ELSE _fallback_classify(q)

(***************************************************************************)
(* AgentOrchestrator.route_to_health_agent                                 *)
(***************************************************************************)
\* JSON values that can stand where the program expects a string
Str(x) == [type |-> "str", v |-> x]
JsonNull == [type |-> "null", v |-> ""]
JsonNumber == [type |-> "int", v |-> "42"]
\* the key is absent from the dict
Missing == [type |-> "missing", v |-> ""]

\* the dict both routes return
AgentResult(ok, value, agent) == [success |-> ok, result |-> value, agent_used |-> agent]
NoResult == AgentResult(FALSE, JsonNull, "")
\* the dict of a successful exchange also holds the time it took
Timed(res) ==
    [success |-> res.success, result |-> res.result, agent_used |-> res.agent_used,
     processing_time |-> "elapsed"]

(* What client.post does: it raises e (connect error, the 30 s timeout), or *)
(* answers with a status and a body.  body: "field" a JSON object that     *)
(* holds the field (with the value), "no_field" a JSON object without it,  *)
(* "list" JSON that is no object, "invalid" no JSON.                       *)
TransportRaised(e) == [kind |-> "raise", status |-> 0, body |-> "", value |-> JsonNull, error |-> e]
HttpAnswer(status, body, value) ==
    [kind |-> "http", status |-> status, body |-> body, value |-> value, error |-> ""]
\* no exchange yet; the route was replaced by a stub
NoExchange == [kind |-> "none", status |-> 0, body |-> "", value |-> JsonNull, error |-> ""]
Stubbed == [kind |-> "stub", status |-> 0, body |-> "", value |-> JsonNull, error |-> ""]

\* a plausible slip: the status code is not looked at
health_result_status_unchecked(o) ==
    IF o.kind = "raise"
    THEN AgentResult(FALSE, Str("Error contacting health agent: " \o o.error), "health_doctor")
    ELSE CASE o.body = "field" -> AgentResult(TRUE, o.value, "health_doctor")
           [] o.body = "no_field" -> AgentResult(TRUE, Str("No response received"), "health_doctor")
           [] o.body = "list" ->
                AgentResult(FALSE,
                    Str("Error contacting health agent: 'list' object has no attribute 'get'"),
                    "health_doctor")
           [] OTHER ->
                AgentResult(FALSE, Str("Error contacting health agent: Expecting value"),
                    "health_doctor")

health_result(o) ==
    IF o.kind = "raise"
    THEN AgentResult(FALSE, Str("Error contacting health agent: " \o o.error), "health_doctor")
    ELSE IF o.status = 200
    THEN CASE o.body = "field" -> Timed(AgentResult(TRUE, o.value, "health_doctor"))
           [] o.body = "no_field" ->
                Timed(AgentResult(TRUE, Str("No response received"), "health_doctor"))
           [] o.body = "list" ->
                AgentResult(FALSE,
                    Str("Error contacting health agent: 'list' object has no attribute 'get'"),
                    "health_doctor")
           [] OTHER ->
                AgentResult(FALSE, Str("Error contacting health agent: Expecting value"),
                    "health_doctor")
    ELSE AgentResult(FALSE, Str("Health agent error: " \o ToString(o.status)), "health_doctor")

HealthAnswers ==
    {TransportRaised("All connection attempts failed")}
    \cup {HttpAnswer(500, b, JsonNull) : b \in {"invalid", "no_field"}}
    \cup {HttpAnswer(200, b, JsonNull) : b \in {"no_field", "list", "invalid"}}
    \cup {HttpAnswer(200, "field", v) : v \in {Str("Found 3 doctors in GA"), JsonNull, JsonNumber}}

(***************************************************************************)
(* AgentOrchestrator.route_to_insurance_agent                              *)
(***************************************************************************)
\* except Exception as e: the inner try returns at once
insurance_unavailable(e) ==
    AgentResult(FALSE, Str("Insurance agent temporarily unavailable: " \o e), "insurance")

\* a received message: json.loads(response), then response_data.get("content", ...)
insurance_result(m) ==
    IF m.kind = "raise" THEN insurance_unavailable(m.error)
    ELSE CASE m.body = "field" -> Timed(AgentResult(TRUE, m.value, "insurance"))
           [] m.body = "no_field" ->
                Timed(AgentResult(TRUE, Str("No response received"), "insurance"))
           [] m.body = "list" ->
                insurance_unavailable("'list' object has no attribute 'get'")
           [] OTHER -> insurance_unavailable("Expecting value")

InsuranceMessages ==
    {TransportRaised("no close frame received or sent")}
    \cup {HttpAnswer(0, b, JsonNull) : b \in {"no_field", "list", "invalid"}}
    \cup {HttpAnswer(0, "field", v) : v \in {Str("Covered at 80%"), JsonNull}}

(***************************************************************************)
(* AgentOrchestrator.process_query                                         *)
(***************************************************************************)
QueryResponse(r, ok, agent, c, why) ==
    [result |-> r, success |-> ok, agent_used |-> agent, confidence |-> c, reasoning |-> why]
NoResponse == QueryResponse("", FALSE, "", "", "")

NotForced == Returns("", "", "")

\* a plausible slip: the forced agent is matched without regard to letter case
forced_decision_any_case(force) ==
    IF force # PyNone /\ lower(force) \in {"doctor", "health"}
    THEN Returns(HEALTH_DOCTOR, "1.0", "Forced to health agent")
    ELSE IF force # PyNone /\ lower(force) = "insurance"
    THEN Returns(INSURANCE, "1.0", "Forced to insurance agent")
    ELSE NotForced

\* the if / elif that honours force_agent; NotForced is the else branch
forced_decision(force) ==
    IF force # PyNone /\ force # "" /\ force \in {"doctor", "health"}
    THEN Returns(HEALTH_DOCTOR, "1.0", "Forced to health agent")
    ELSE IF force = "insurance"
    THEN Returns(INSURANCE, "1.0", "Forced to insurance agent")
    ELSE NotForced

\* a plausible slip: the category is compared with the member's name, not the member
route_target_by_name(query_type) == IF query_type = "INSURANCE" THEN "insurance" ELSE "health"

\* if query_type == QueryType.INSURANCE ... else
route_target(query_type) == IF query_type = INSURANCE THEN "insurance" ELSE "health"

\* QueryResponse(result=result["result"], ...): pydantic validates the str field.
\* lax: the installed pydantic coerces a number to str (v1) instead of refusing it (v2)
query_response(res, d, lax) ==
    IF res.result.type = "str" \/ (res.result.type = "int" /\ lax)
    THEN [ok |-> TRUE, error |-> "",
          response |-> QueryResponse(res.result.v, res.success, res.agent_used,
                                     d.confidence, d.reasoning)]
    ELSE [ok |-> FALSE,
          error |-> IF res.result.type = "missing" THEN "'result'"      \* KeyError
                    ELSE "1 validation error for QueryResponse",
          response |-> NoResponse]

\* a plausible slip: the handler logs the exception and raises it again
orchestration_error_reraised(e) == [raised |-> TRUE, response |-> NoResponse]

\* a plausible slip: the error response names no agent
orchestration_error_agent_unknown(e) ==
    [raised |-> FALSE,
     response |-> QueryResponse("Orchestration error: " \o e, FALSE, "unknown", "0.0",
                                "Error in orchestration")]

\* except Exception as e, at the top level of process_query
orchestration_error(e) ==
    [raised |-> FALSE,
     response |-> QueryResponse("Orchestration error: " \o e, FALSE, "error", "0.0",
                                "Error in orchestration")]

(***************************************************************************)
(* Inputs of process_query                                                 *)
(***************************************************************************)
\* dicts a stubbed route hands back: well-formed, without the result key, with None
StubResults == {AgentResult(TRUE, v, "insurance") : v \in {Str("Stub response"), Missing, JsonNull}}

\* decisions a stubbed classify_query hands back
StubDecisions == {Returns(HEALTH_DOCTOR, "0.3", "Default to health agent"),
                  Returns(UNKNOWN, "0.5", "Stub decision")}

OrchestratorQueries == {"", "hello", "what is my deductible",
                        "find me a doctor covered by my plan"}

ForceAgents == {PyNone, "", "auto", "doctor", "health", "insurance", "hospital", "INSURANCE"}

(***************************************************************************)
(* Inputs of the classifier: the queries made of up to MaxQueryParts parts *)
(* of QueryParts joined by single spaces, two locations, and what the LLM  *)
(* can do.                                                                 *)
(***************************************************************************)
MaxQueryParts == 3

QueryParts == {"find me a doctor", "Need a Doctor", "in my area", "specialist", "find",
               "covered by", "my deductible", "insurance", "pay", "hello"}

RECURSIVE JoinWords(_)
JoinWords(ws) ==
    IF Len(ws) = 0 THEN ""
    ELSE IF Len(ws) = 1 THEN ws[1]
    ELSE ws[1] \o " " \o JoinWords(Tail(ws))

RECURSIVE WordSeqs(_, _)
WordSeqs(words, n) ==
    IF n = 0 THEN {<<>>}
    ELSE LET shorter == WordSeqs(words, n - 1)
         IN  shorter \cup {Append(q, w) : q \in {x \in shorter : Len(x) = n - 1}, w \in words}

\* queries of the test suite
SuiteQueries == {
    "Looking for a cardiologist in Atlanta", "Find me a hospital nearby",
    "I have symptoms and need medical help", "Need to see a pediatrician",
    "need specialist covered by my plan", "find cardiologist covered by insurance",
    "doctor near me that accepts my plan",
    "looking for cardiologist in my insurance network",
    "does my plan cover cardiologist visits?", "my insurance benefits for heart doctor",
    "what is my deductible for specialists?", "Insurance reimbursement question",
    "Hello there" }

\* queries with both kinds of keyword
MixedQueries == {
    "my deductible for the hospital doctor and clinic",
    "search for a cardiologist covered under my plan",
    "is the cardiologist visit covered under my plan",
    "hospital bill and my premium" }

Queries ==
    {JoinWords(parts) : parts \in WordSeqs(QueryParts, MaxQueryParts)}
    \cup SuiteQueries \cup MixedQueries

Locations == {"", "Atlanta"}

LLMReplies == {"HEALTH_DOCTOR", "insurance", " Insurance\n", "health_doctor or insurance",
               "I cannot tell", ""}

LLMOutcomes ==
    {Reply(text) : text \in LLMReplies}
    \cup {LLMFailure(k) : k \in {"raise", "no_history", "no_content"}}

NoLLM == LLMFailure("none")
NoClassification == Returns("", "", "")

(***************************************************************************)
(* State machine of one classifier call                                    *)
(***************************************************************************)
\* nothing but the call under study is running
NoRequest == [pc |-> "idle"]

ServicesIdle ==
    /\ calls = <<>> /\ chat_messages = <<>> /\ fallback_returns = {}
    /\ mcp = NoRequest /\ health = NoRequest /\ web = NoRequest

OrchestratorIdle ==
    /\ pc = "off" /\ force_agent = PyNone /\ decision = NotForced
    /\ classify_calls = 0 /\ health_calls = <<>> /\ insurance_calls = <<>>
    /\ result = NoResult /\ exchange = NoExchange /\ exception = PyNone
    /\ answer = NoResponse /\ outcome = "pending"

ClassifyIdle ==
    /\ query = "" /\ location = ""
    /\ cpc = "off" /\ llm = NoLLM /\ classification = NoClassification

InitClassify ==
    /\ query \in Queries
    /\ location \in Locations
    /\ cpc = "call"
    /\ llm = NoLLM
    /\ classification = NoClassification
    /\ prompt = PyNone /\ epc = "off" /\ state_code = PyNone /\ step = "none"
    /\ OrchestratorIdle
    /\ ServicesIdle

\* a direct call of _fallback_classify(query)
FallbackCall ==
    /\ cpc = "call"
    /\ classification' = _fallback_classify(query)
    /\ cpc' = "fallback_returned"
    /\ UNCHANGED <<query, location, llm, extract_vars, orchestrator_vars, service_vars>>

\* a call of classify_query(query, location) in which the LLM does o
ClassifyCall(o) ==
    /\ cpc = "call"
    /\ llm' = o
    /\ classification' = classify_query(query, location, o)
    /\ cpc' = "classify_returned"
    /\ UNCHANGED <<query, location, extract_vars, orchestrator_vars, service_vars>>

NextClassify ==
    \/ FallbackCall
    \/ \E o \in LLMOutcomes : ClassifyCall(o)

SpecClassify == InitClassify /\ [][NextClassify]_vars

(***************************************************************************)
(* Inputs of extract_state_from_prompt: None, and the texts made of up to  *)
(* MaxCore words, all of CodeWords or all of NameWords, after either no    *)
(* filler word or MaxFill filler words, joined by single spaces.           *)
(***************************************************************************)
MaxCore == 3
MaxFill == 4

CodeWords == {"in", "state", "doctors", "CA", "ny", "OR", "ZZ", "hi,"}

NameWords == {"Indiana", "West Virginia", "virginia", "ARKANSAS", "CA"}

\* words of texts that name a city
CityWords == {"atlanta", "Los Angeles", "doctors", "in", "MD"}

Filler == "pls"

Prompts ==
    {PyNone} \cup
    {JoinWords([k \in 1..f |-> Filler] \o core) :
        f \in {0, MaxFill},
        core \in WordSeqs(CodeWords, MaxCore) \cup WordSeqs(NameWords, MaxCore)
                  \cup WordSeqs(CityWords, MaxCore)}

(***************************************************************************)
(* State machine of one extract_state_from_prompt call                     *)
(***************************************************************************)
InitExtract ==
    /\ prompt \in Prompts
    /\ epc = "call"
    /\ state_code = PyNone
    /\ step = "none"
    /\ ClassifyIdle
    /\ OrchestratorIdle
    /\ ServicesIdle

ExtractCall ==
    /\ epc = "call"
    /\ LET r == extract_result(prompt)
       IN  state_code' = r.code /\ step' = r.step
    /\ epc' = "returned"
    /\ UNCHANGED <<prompt, query, location, classify_vars, orchestrator_vars, service_vars>>

NextExtract == ExtractCall

SpecExtract == InitExtract /\ [][NextExtract]_vars

(***************************************************************************)
(* State machine of one process_query call.  pc is the position of the     *)
(* coroutine: "start", "classify" (in classify_query, waiting for the      *)
(* LLM), "dispatch", "health_post" (waiting for client.post),              *)
(* "ins_connect", "ins_send", "ins_recv" (waiting in websockets.connect,   *)
(* send, recv), "respond" (building the QueryResponse), "except" (in the   *)
(* top-level handler), "done".                                             *)
(***************************************************************************)
Init ==
    /\ location \in Locations
    /\ query \in OrchestratorQueries
    /\ force_agent \in ForceAgents
    /\ pc = "start"
    /\ decision = NotForced
    /\ classify_calls = 0 /\ health_calls = <<>> /\ insurance_calls = <<>>
    /\ result = NoResult /\ exchange = NoExchange /\ exception = PyNone
    /\ answer = NoResponse /\ outcome = "pending"
    /\ cpc = "off" /\ llm = NoLLM /\ classification = NoClassification
    /\ prompt = PyNone /\ epc = "off" /\ state_code = PyNone /\ step = "none"
    /\ ServicesIdle

input_vars == <<location, query, force_agent>>
call_vars == <<classify_calls, health_calls, insurance_calls>>

\* lines 366-378: honour force_agent, or call classify_query
Decide ==
    /\ pc = "start"
    /\ LET forced == forced_decision(force_agent) IN
       IF forced # NotForced
       THEN /\ decision' = forced
            /\ pc' = "dispatch"
            /\ UNCHANGED classify_calls
       ELSE /\ classify_calls' = classify_calls + 1
            /\ pc' = "classify"
            /\ UNCHANGED decision
    /\ UNCHANGED <<input_vars, health_calls, insurance_calls, result, exchange, exception, answer,
                   outcome, cpc, llm, classification, extract_vars, service_vars>>

\* what the router LLM can do during a process_query call
OrchestratorLLMOutcomes == LLMOutcomes \cup {LLMFailure("timeout")}

\* classify_query is a function of its arguments and of what the LLM does: its
\* value on the inputs of process_query
classify_query_of ==
    [q \in OrchestratorQueries, loc \in Locations, o \in OrchestratorLLMOutcomes |->
        classify_query(q, loc, o)]

\* classify_query returns (or, were it to raise, the handler is entered)
Classified(o) ==
    /\ llm' = o
    /\ LET returned == classify_query_of[query, location, o] IN
       /\ classification' = returned
       /\ IF returned.raised
          THEN pc' = "except" /\ exception' = returned.reasoning /\ UNCHANGED decision
          ELSE pc' = "dispatch" /\ decision' = returned /\ UNCHANGED exception
    /\ UNCHANGED <<input_vars, call_vars, result, exchange, answer, outcome, cpc, extract_vars,
                   service_vars>>

\* the router LLM answers, or the call fails
LLMAnswers(o) == pc = "classify" /\ Classified(o)

\* the 30 s timeout of llm_config ends a call that got no answer
LLMTimeout == pc = "classify" /\ Classified(LLMFailure("timeout"))

\* classify_query replaced by a stub that raises, as the test suite does
ClassifierStubRaises ==
    /\ pc = "classify"
    /\ pc' = "except"
    /\ exception' = "Classification error"
    /\ UNCHANGED <<input_vars, call_vars, decision, result, exchange, answer, outcome,
                   cpc, llm, classification, extract_vars, service_vars>>

\* classify_query replaced by a stub that returns a fixed decision
ClassifierStubReturns(d) ==
    /\ pc = "classify"
    /\ pc' = "dispatch"
    /\ decision' = d
    /\ UNCHANGED <<input_vars, call_vars, result, exchange, exception, answer, outcome,
                   cpc, llm, classification, extract_vars, service_vars>>

\* lines 383-386: call the one route the decision names
Dispatch ==
    /\ pc = "dispatch"
    /\ IF route_target(decision.query_type) = "insurance"
       THEN /\ insurance_calls' = Append(insurance_calls, <<query>>)
            /\ pc' = "ins_connect"
            /\ UNCHANGED health_calls
       ELSE /\ health_calls' = Append(health_calls, <<location, query>>)
            /\ pc' = "health_post"
            /\ UNCHANGED insurance_calls
    /\ UNCHANGED <<input_vars, classify_calls, decision, result, exchange, exception, answer,
                   outcome, cpc, llm, classification, extract_vars, service_vars>>

RouteReturns(o, res) ==
    /\ exchange' = o
    /\ result' = res
    /\ pc' = "respond"
    /\ UNCHANGED <<input_vars, call_vars, decision, exception, answer, outcome,
                   cpc, llm, classification, extract_vars, service_vars>>

\* the health agent answers, or the transport fails
HealthAnswered(o) == pc = "health_post" /\ RouteReturns(o, health_result(o))

\* httpx.AsyncClient(timeout=30.0): no answer within 30 s raises
HealthTimeout ==
    /\ pc = "health_post"
    /\ RouteReturns(TransportRaised("ReadTimeout"), health_result(TransportRaised("ReadTimeout")))

\* websockets.connect succeeds
InsuranceConnected ==
    /\ pc = "ins_connect"
    /\ pc' = "ins_send"
    /\ UNCHANGED <<input_vars, call_vars, decision, result, exchange, exception, answer, outcome,
                   cpc, llm, classification, extract_vars, service_vars>>

\* websockets.connect raises: refused, failed handshake, or (websockets >= 14)
\* TypeError for the keyword timeout
InsuranceConnectFails(e) ==
    pc = "ins_connect" /\ RouteReturns(TransportRaised(e), insurance_unavailable(e))

\* the opening handshake is bounded by the library's open_timeout
InsuranceConnectTimeout ==
    /\ pc = "ins_connect"
    /\ RouteReturns(TransportRaised("timed out during handshake"),
                    insurance_unavailable("timed out during handshake"))

\* await websocket.send(...) completes, or finds the connection closed
InsuranceSend(closed) ==
    /\ pc = "ins_send"
    /\ IF closed
       THEN RouteReturns(TransportRaised("no close frame received or sent"),
                         insurance_unavailable("no close frame received or sent"))
       ELSE /\ pc' = "ins_recv"
            /\ UNCHANGED <<input_vars, call_vars, decision, result, exchange, exception, answer,
                           outcome, cpc, llm, classification, extract_vars, service_vars>>

\* await websocket.recv() returns a message, or finds the connection closed; the
\* call carries no timeout
InsuranceReceived(m) == pc = "ins_recv" /\ RouteReturns(m, insurance_result(m))

\* the route replaced by a stub, as the test suite does: it returns the dict it was
\* given, well-formed or not
RouteStubReturns(res) ==
    pc \in {"health_post", "ins_connect"} /\ RouteReturns(Stubbed, res)

\* the route replaced by a stub that raises
RouteStubRaises ==
    /\ pc \in {"health_post", "ins_connect"}
    /\ pc' = "except"
    /\ exception' = "Route error"
    /\ UNCHANGED <<input_vars, call_vars, decision, result, exchange, answer, outcome,
                   cpc, llm, classification, extract_vars, service_vars>>

\* lines 391-397: build the QueryResponse
Respond(lax) ==
    /\ pc = "respond"
    /\ LET r == query_response(result, decision, lax) IN
       IF r.ok
       THEN /\ answer' = r.response
            /\ outcome' = "returned"
            /\ pc' = "done"
            /\ UNCHANGED exception
       ELSE /\ exception' = r.error
            /\ pc' = "except"
            /\ UNCHANGED <<answer, outcome>>
    /\ UNCHANGED <<input_vars, call_vars, decision, result, exchange, cpc, llm, classification,
                   extract_vars, service_vars>>

\* lines 399-410: the top-level handler
TopLevelExcept ==
    /\ pc = "except"
    /\ LET h == orchestration_error(exception) IN
       /\ answer' = h.response
       /\ outcome' = IF h.raised THEN "raised" ELSE "returned"
    /\ pc' = "done"
    /\ UNCHANGED <<input_vars, call_vars, decision, result, exchange, exception, cpc, llm,
                   classification, extract_vars, service_vars>>

Next ==
    \/ Decide
    \/ \E o \in LLMOutcomes : LLMAnswers(o)
    \/ LLMTimeout
    \/ ClassifierStubRaises
    \/ \E d \in StubDecisions : ClassifierStubReturns(d)
    \/ Dispatch
    \/ \E o \in HealthAnswers : HealthAnswered(o)
    \/ HealthTimeout
    \/ InsuranceConnected
    \/ \E e \in {"Connection refused", "unexpected keyword argument 'timeout'"} :
          InsuranceConnectFails(e)
    \/ InsuranceConnectTimeout
    \/ \E closed \in BOOLEAN : InsuranceSend(closed)
    \/ \E m \in InsuranceMessages : InsuranceReceived(m)
    \/ \E res \in StubResults : RouteStubReturns(res)
    \/ RouteStubRaises
    \/ \E lax \in BOOLEAN : Respond(lax)
    \/ TopLevelExcept

Spec == Init /\ [][Next]_vars

(* The steps the program takes by itself, and the timeouts it sets, happen *)
(* when they can.  Nothing obliges the LLM, the health agent or the        *)
(* insurance agent to answer.                                              *)
Fairness ==
    /\ WF_vars(Decide)
    /\ WF_vars(Dispatch)
    /\ WF_vars(\E lax \in BOOLEAN : Respond(lax))
    /\ WF_vars(TopLevelExcept)
    /\ WF_vars(LLMTimeout)
    /\ WF_vars(HealthTimeout)
    /\ WF_vars(InsuranceConnectTimeout)
    /\ WF_vars(\E closed \in BOOLEAN : InsuranceSend(closed))

FairSpec == Spec /\ Fairness

(***************************************************************************)
(* Several process_query calls on the module-level orchestrator.  The      *)
(* endpoint is a coroutine on one event loop: a call runs without          *)
(* interruption from one await that suspends to the next.  classify_query  *)
(* holds no such await (initiate_chat is an ordinary call), so a call runs *)
(* from its start to the first await of its route in one step; the route's *)
(* answer and the construction of the response are the second step.  The   *)
(* calls share the user proxy and the router agent, whose conversation is  *)
(* chat_messages.                                                          *)
(***************************************************************************)
NumCalls == 2

CallIds == 1..NumCalls

ConcurrentQueries == {"hello", "what is my deductible"}
ConcurrentForceAgents == {PyNone, "insurance"}

\* what the router LLM does in a call
ConcurrentLLMOutcomes ==
    {Reply("HEALTH_DOCTOR"), Reply("insurance"), LLMFailure("raise"), LLMFailure("no_history")}

\* what the downstream agent does in a call
ConcurrentExchanges ==
    {TransportRaised("All connection attempts failed"),
     HttpAnswer(200, "field", Str("Found 3 doctors in GA"))}

\* a call before its first step
NewCall(q, loc, force) ==
    [pc |-> "start", query |-> q, location |-> loc, force_agent |-> force,
     llm |-> NoLLM, exchange |-> NoExchange, decision |-> NotForced,
     result |-> NoResult, answer |-> NoResponse]

\* a plausible slip: the chat is started with clear_history=False
initiate_chat_keeping_history(messages, message, o) ==
    CASE o.kind = "reply" -> messages \o <<message, o.content>>
      [] o.kind = "no_content" -> messages \o <<message, PyNone>>
      [] o.kind = "no_history" -> messages
      [] OTHER -> messages \o <<message>>

\* user_proxy.initiate_chat(router_agent, message=..., max_turns=1): the earlier
\* conversation is cleared, the message is sent and the router's reply is recorded;
\* the conversation is what chat_result.chat_history holds
initiate_chat(messages, message, o) ==
    CASE o.kind = "reply" -> <<message, o.content>>
      [] o.kind = "no_content" -> <<message, PyNone>>
      [] o.kind = "no_history" -> <<>>
      [] OTHER -> <<message>>

\* lines 157-182, reading the conversation the chat left
classify_from_chat(q, o, chat_history) ==
    IF o.kind \in {"raise", "timeout"} \/ chat_history = <<>>
          \/ chat_history[Len(chat_history)] = PyNone
    THEN _fallback_classify(q)
    ELSE LET response == upper(strip(chat_history[Len(chat_history)])) IN
         IF In("HEALTH_DOCTOR", response)
         THEN Returns(HEALTH_DOCTOR, "0.8", "Query contains health/medical keywords")
         ELSE IF In("INSURANCE", response)
         THEN Returns(INSURANCE, "0.8", "Query contains insurance-related keywords")
         ELSE _fallback_classify(q)

\* the dict the route of the decision returns for what the agent did
route_result(query_type, x) ==
    IF route_target(query_type) = "insurance" THEN insurance_result(x) ELSE health_result(x)

\* lines 391-410 for a route's dict
response_for(res, d) ==
    LET r == query_response(res, d, FALSE)
    IN  IF r.ok THEN r.response ELSE orchestration_error(r.error).response

\* the decision of a call that finds the conversation messages
decision_with(q, loc, force, o, messages) ==
    IF forced_decision(force) # NotForced
    THEN forced_decision(force)
    ELSE classify_from_chat(q, o, initiate_chat(messages, classification_prompt(q, loc), o))

\* the response of process_query run alone on a new orchestrator
process_alone(q, loc, force, o, x) ==
    LET d == decision_with(q, loc, force, o, <<>>)
    IN  response_for(route_result(d.query_type, x), d)

InitConcurrent ==
    /\ calls \in [CallIds -> {NewCall(q, "", force) :
                                q \in ConcurrentQueries, force \in ConcurrentForceAgents}]
    /\ chat_messages = <<>> /\ fallback_returns = {}
    /\ mcp = NoRequest /\ health = NoRequest /\ web = NoRequest
    /\ prompt = PyNone /\ epc = "off" /\ state_code = PyNone /\ step = "none"
    /\ ClassifyIdle
    /\ OrchestratorIdle

single_call_vars == <<extract_vars, query, location, classify_vars, orchestrator_vars>>
outside_concurrent == <<single_call_vars, fallback_returns, mcp, health, web>>

\* lines 366-386 of call c, up to the await of its route: forced
CallForced(c) ==
    /\ calls[c].pc = "start"
    /\ forced_decision(calls[c].force_agent) # NotForced
    /\ calls' = [calls EXCEPT ![c].pc = "routing",
                              ![c].decision = forced_decision(calls[c].force_agent)]
    /\ UNCHANGED <<chat_messages, outside_concurrent>>

\* the same, classified: the router LLM does o
CallClassified(c, o) ==
    /\ calls[c].pc = "start"
    /\ forced_decision(calls[c].force_agent) = NotForced
    /\ LET chat_history ==
              initiate_chat(chat_messages,
                            classification_prompt(calls[c].query, calls[c].location), o)
       IN  /\ chat_messages' = chat_history
           /\ calls' = [calls EXCEPT
                 ![c].pc = "routing",
                 ![c].llm = o,
                 ![c].decision = classify_from_chat(calls[c].query, o, chat_history)]
    /\ UNCHANGED outside_concurrent

\* the route of call c returns after the agent did x, and the response is built
CallAnswered(c, x) ==
    /\ calls[c].pc = "routing"
    /\ LET res == route_result(calls[c].decision.query_type, x)
       IN  calls' = [calls EXCEPT
                 ![c].pc = "done",
                 ![c].exchange = x,
                 ![c].result = res,
                 ![c].answer = response_for(res, calls[c].decision)]
    /\ UNCHANGED <<chat_messages, outside_concurrent>>

NextConcurrent ==
    \/ \E c \in CallIds : CallForced(c)
    \/ \E c \in CallIds, o \in ConcurrentLLMOutcomes : CallClassified(c, o)
    \/ \E c \in CallIds, x \in ConcurrentExchanges : CallAnswered(c, x)

SpecConcurrent == InitConcurrent /\ [][NextConcurrent]_vars

(***************************************************************************)
(* Repeated calls of _fallback_classify on the one orchestrator, with      *)
(* calls of classify_query in between                                      *)
(***************************************************************************)
RepeatQueries ==
    {"hello", "what is my deductible", "find me a doctor", "insurance hospital",
     "find insurance hospital"}

\* a plausible slip: the keyword classifier consults the router's last reply
fallback_call_reading_chat(q, messages) ==
    IF Len(messages) = 2 /\ messages[2] # PyNone /\ In("INSURANCE", upper(messages[2]))
    THEN Returns(INSURANCE, "0.7", "Insurance keywords found: 1")
    ELSE _fallback_classify(q)

\* classify_query ends in _fallback_classify: the chat failed or left no label
uses_fallback(o, chat_history) ==
    \/ o.kind \in {"raise", "timeout"}
    \/ chat_history = <<>>
    \/ chat_history[Len(chat_history)] = PyNone
    \/ LET response == upper(strip(chat_history[Len(chat_history)]))
       IN  ~In("HEALTH_DOCTOR", response) /\ ~In("INSURANCE", response)

\* self._fallback_classify(query) on an orchestrator whose agents hold the conversation
\* messages: the method reads its argument and its own local lists only
fallback_call(q, messages) == _fallback_classify(q)

InitRepeat ==
    /\ fallback_returns = {} /\ chat_messages = <<>>
    /\ calls = <<>> /\ mcp = NoRequest /\ health = NoRequest /\ web = NoRequest
    /\ prompt = PyNone /\ epc = "off" /\ state_code = PyNone /\ step = "none"
    /\ ClassifyIdle
    /\ OrchestratorIdle

outside_repeat == <<single_call_vars, calls, mcp, health, web>>

\* a call of _fallback_classify: the returned triple is recorded with its query
FallbackAgain(q) ==
    /\ fallback_returns' = fallback_returns \cup {<<q, fallback_call(q, chat_messages)>>}
    /\ UNCHANGED <<chat_messages, outside_repeat>>

\* a call of classify_query in between: the router LLM does o; a reply without a label
\* or a failure makes the call use _fallback_classify itself
ClassifyBetween(q, o) ==
    /\ chat_messages' = initiate_chat(chat_messages, classification_prompt(q, ""), o)
    /\ fallback_returns' =
          IF uses_fallback(o, chat_messages')
          THEN fallback_returns \cup {<<q, fallback_call(q, chat_messages')>>}
          ELSE fallback_returns
    /\ UNCHANGED outside_repeat

NextRepeat ==
    \/ \E q \in RepeatQueries : FallbackAgain(q)
    \/ \E q \in RepeatQueries, o \in ConcurrentLLMOutcomes \cup {Reply("maybe")} :
          ClassifyBetween(q, o)

SpecRepeat == InitRepeat /\ [][NextRepeat]_vars

(***************************************************************************)
(* The MCP server (server/mcpserver.py): the doctor directory, the tool    *)
(* doctor_search and the JSON-RPC endpoint POST /                          *)
(***************************************************************************)
\* the directory, in the order of the dict: the key and address.state of each entry
doctors == <<
    [doc_id |-> "DOC001", state |-> "GA"], [doc_id |-> "DOC002", state |-> "AZ"],
    [doc_id |-> "DOC003", state |-> "CA"], [doc_id |-> "DOC004", state |-> "CO"],
    [doc_id |-> "DOC005", state |-> "TX"], [doc_id |-> "DOC006", state |-> "WA"],
    [doc_id |-> "DOC007", state |-> "FL"], [doc_id |-> "DOC008", state |-> "IL"],
    [doc_id |-> "DOC009", state |-> "MA"], [doc_id |-> "DOC010", state |-> "TN"] >>

\* ', '.join(sorted(set(doc["address"]["state"] for doc in doctors.values())))
available_states == "AZ, CA, CO, FL, GA, IL, MA, TN, TX, WA"

\* the entries the loop of lines 386-390 keeps, in the order of the directory
filtered_doctors(state_upper) ==
    SelectSeq(doctors, LAMBDA doc : doc.state = state_upper)

\* str(filtered_doctors): the dict's repr; of each entry the key and the state are written
RECURSIVE str_of_entries(_)
str_of_entries(entries) ==
    IF entries = <<>> THEN ""
    ELSE "'" \o entries[1].doc_id \o "': {'address': {'state': '" \o entries[1].state \o "'}}"
         \o (IF Len(entries) > 1 THEN ", " ELSE "") \o str_of_entries(Tail(entries))

str_of_dict(entries) == "{" \o str_of_entries(entries) \o "}"

\* what a call of the tool does: it returns a text or raises
SearchReturns(text) == [raised |-> FALSE, text |-> text]
SearchRaises(e) == [raised |-> TRUE, text |-> e]
NoSearch == [raised |-> FALSE, text |-> PyNone]

\* a plausible slip: the input is compared as typed
doctor_search_as_typed(state) ==
    IF state.type = "null" \/ (state.type = "str" /\ state.v = "")
    THEN SearchReturns("No doctors found: state parameter is required")
    ELSE IF state.type # "str"
    THEN SearchRaises("'int' object has no attribute 'upper'")
    ELSE IF Len(strip(state.v)) # 2
    THEN SearchReturns("Invalid state code: " \o state.v
                       \o ". Please provide a 2-letter state code.")
    ELSE IF filtered_doctors(strip(state.v)) # <<>>
    THEN SearchReturns(str_of_dict(filtered_doctors(strip(state.v))))
    ELSE SearchReturns("No doctors found in state: " \o state.v
                       \o ". Available states: " \o available_states)

\* doctor_search(state); state is the JSON value handed over: a text, None or a number
doctor_search(state) ==
    IF state.type = "null" \/ (state.type = "str" /\ state.v = "")
    THEN SearchReturns("No doctors found: state parameter is required")
    ELSE IF state.type # "str"
    THEN SearchRaises("'int' object has no attribute 'upper'")
    ELSE LET state_upper == strip(upper(state.v)) IN
         IF Len(state_upper) # 2
         THEN SearchReturns("Invalid state code: " \o state.v
                            \o ". Please provide a 2-letter state code.")
         ELSE IF filtered_doctors(state_upper) # <<>>
         THEN SearchReturns(str_of_dict(filtered_doctors(state_upper)))
         ELSE SearchReturns("No doctors found in state: " \o state.v
                            \o ". Available states: " \o available_states)

(* The body of a POST /.  json: "invalid" (no JSON), "array", "string" (JSON *)
(* that is no object) or "object"; of an object: the id and the method (a   *)
(* JSON value or Missing), params ("missing", "object", "array", "null"),   *)
(* and of an object params the name, the arguments ("missing", "object",    *)
(* "null") and of an object arguments the state.                            *)
JsonrpcBody(json, id, method, params, name, arguments, state) ==
    [json |-> json, id |-> id, method |-> method, params |-> params, name |-> name,
     arguments |-> arguments, state |-> state]

\* dict.get(key): None for an absent key
get(value) == IF value = Missing THEN JsonNull ELSE value

(* The answer: the HTTP status and, of a JSON-RPC response, the id, whether *)
(* it holds "result" and "error", the error's code and message, the content  *)
(* list of a tool result and whether the result is the tool list.           *)
JsonrpcError(id, code, message) ==
    [status |-> 200, id |-> id, has_result |-> FALSE, has_error |-> TRUE, code |-> code,
     message |-> message, content |-> <<>>, tools |-> FALSE]
JsonrpcResult(id, content, tools) ==
    [status |-> 200, id |-> id, has_result |-> TRUE, has_error |-> FALSE, code |-> 0,
     message |-> "", content |-> content, tools |-> tools]
\* an exception no handler of the endpoint catches: the framework answers 500
InternalServerError ==
    [status |-> 500, id |-> Missing, has_result |-> FALSE, has_error |-> FALSE, code |-> 0,
     message |-> "Internal Server Error", content |-> <<>>, tools |-> FALSE]
NoJsonrpcResponse ==
    [status |-> 0, id |-> Missing, has_result |-> FALSE, has_error |-> FALSE, code |-> 0,
     message |-> "", content |-> <<>>, tools |-> FALSE]

\* str(None) is "None"
str_of(value) == IF value.type = "null" THEN "None" ELSE value.v

\* lines 551-592: tools/call with params a dict
tools_call(json_request_id, body) ==
    LET tool_name == get(body.name) IN
    IF tool_name = Str("doctor_search")
    THEN IF body.arguments \in {"null", "array"}
         THEN InternalServerError      \* arguments.get: AttributeError, outside the try
         ELSE LET state == IF body.arguments = "missing" \/ body.state = Missing
                           THEN Str("") ELSE body.state
                  searched == doctor_search(state)
              IN  IF searched.raised
                  THEN JsonrpcError(json_request_id, -32603,
                                    "Internal error in doctor_search: " \o searched.text)
                  ELSE JsonrpcResult(json_request_id,
                                     <<[type |-> "text", text |-> searched.text]>>, FALSE)
    ELSE JsonrpcError(json_request_id, -32601, "Tool not found: " \o str_of(tool_name))

\* handle_jsonrpc(request), lines 479-604
handle_jsonrpc(body) ==
    IF body.json = "invalid" THEN JsonrpcError(JsonNull, -32600, "Invalid Request")
    ELSE IF body.json # "object"
    THEN InternalServerError           \* body.get: AttributeError on a list or a str
    ELSE IF body.method = Missing
    THEN JsonrpcError(get(body.id), -32600, "Invalid Request - missing method field")
    ELSE IF body.method = Str("tools/list") THEN JsonrpcResult(get(body.id), <<>>, TRUE)
    ELSE IF body.method = Str("tools/call")
    THEN IF body.params \in {"array", "null"}
         THEN InternalServerError      \* params.get: AttributeError
         ELSE tools_call(get(body.id),
                         IF body.params = "missing"
                         THEN [body EXCEPT !.name = Missing, !.arguments = "missing"]
                         ELSE body)
    ELSE JsonrpcError(get(body.id), -32601, "Method not found: " \o str_of(body.method))

\* the state arguments of the calls studied
SearchStates ==
    {"GA", "ga", "Ga", "gA", " ga ", "CA", "ca", "tx", "Tn", "XY", "xy", "Xy", "ny", "NY",
     "", " ", "G", "GAX", "Georgia", "g a"}

JsonIds == {Missing, JsonNull, JsonNumber, Str("req-1")}

JsonrpcBodies ==
    {JsonrpcBody(json, Missing, Missing, "missing", Missing, "missing", Missing) :
        json \in {"invalid", "array", "string"}}
    \cup {JsonrpcBody("object", id, method, "missing", Missing, "missing", Missing) :
            id \in JsonIds,
            method \in {Missing, JsonNull, Str("tools/list"), Str("tools/call"),
                        Str("invalid/method")}}
    \cup {JsonrpcBody("object", id, Str("tools/call"), params, Missing, "missing", Missing) :
            id \in JsonIds, params \in {"array", "null", "object"}}
    \cup {JsonrpcBody("object", id, Str("tools/call"), "object", name, arguments, Missing) :
            id \in JsonIds, name \in {Str("doctor_search"), Str("nonexistent_tool"), JsonNull},
            arguments \in {"missing", "null", "object"}}
    \cup {JsonrpcBody("object", id, Str("tools/call"), "object", Str("doctor_search"),
                      "object", state) :
            id \in JsonIds,
            state \in {Str("GA"), Str("ga"), Str("XY"), Str(""), Str("Georgia"),
                       JsonNull, JsonNumber}}

NoBody == JsonrpcBody("invalid", Missing, Missing, "missing", Missing, "missing", Missing)

\* a request to the MCP server: a call of the tool function, or a POST /
McpRequest(op, state, body) ==
    [pc |-> "request", op |-> op, state |-> state, body |-> body, returned |-> NoSearch,
     response |-> NoJsonrpcResponse]

InitMcp ==
    /\ mcp \in {McpRequest("search", state, NoBody) : state \in SearchStates}
               \cup {McpRequest("post", "", body) : body \in JsonrpcBodies}
    /\ calls = <<>> /\ chat_messages = <<>> /\ fallback_returns = {}
    /\ health = NoRequest /\ web = NoRequest
    /\ prompt = PyNone /\ epc = "off" /\ state_code = PyNone /\ step = "none"
    /\ ClassifyIdle
    /\ OrchestratorIdle

outside_mcp == <<single_call_vars, calls, chat_messages, fallback_returns, health, web>>

\* doctor_search(state) is called with a text
DoctorSearchCall ==
    /\ mcp.pc = "request" /\ mcp.op = "search"
    /\ mcp' = [mcp EXCEPT !.pc = "returned", !.returned = doctor_search(Str(mcp.state))]
    /\ UNCHANGED outside_mcp

\* POST / is handled
HandleJsonrpc ==
    /\ mcp.pc = "request" /\ mcp.op = "post"
    /\ mcp' = [mcp EXCEPT !.pc = "answered", !.response = handle_jsonrpc(mcp.body)]
    /\ UNCHANGED outside_mcp

NextMcp == DoctorSearchCall \/ HandleJsonrpc

SpecMcp == InitMcp /\ [][NextMcp]_vars

(***************************************************************************)
(* The health server's POST /query (server/fastapi_agent_server.py,        *)
(* query_endpoint), its exchange with the MCP server, and the route of the *)
(* orchestrator that receives the answer                                   *)
(***************************************************************************)
(* What client.post(mcp_url, json=payload) does: it raises an exception of *)
(* a class (httpx.TimeoutException; another httpx.RequestError such as     *)
(* ConnectError; an exception outside httpx), or answers with a status and *)
(* a body: "jsonrpc" a JSON-RPC response, "invalid" no JSON,               *)
(* "empty_content" a result whose content list is empty.                   *)
McpRaised(class, e) ==
    [kind |-> "raise", class |-> class, error |-> e, status |-> 0, json |-> "",
     response |-> NoJsonrpcResponse]
McpAnswer(status, json, response) ==
    [kind |-> "http", class |-> "", error |-> "", status |-> status, json |-> json,
     response |-> response]
NoMcpExchange == McpAnswer(0, "", NoJsonrpcResponse)

\* the answer of the endpoint: the status, and of a 200 the QueryResponse, of
\* another status the detail of the HTTPException
HealthResponse(text, ok) == [status |-> 200, result |-> text, success |-> ok, detail |-> ""]
HTTPException(status, detail) ==
    [status |-> status, result |-> "", success |-> FALSE, detail |-> detail]
NoHealthResponse == HTTPException(0, "")

\* the status and the JSON of the MCP server's own answer to a POST /
answer_of_mcp(body) ==
    LET response == handle_jsonrpc(body)
    IN  McpAnswer(response.status, IF response.status = 200 THEN "jsonrpc" ELSE "invalid",
                  response)

\* a plausible slip: the state is sent whether or not one was extracted
search_args_with_state_always(state, q) ==
    [state |-> IF falsy(state) THEN JsonNull ELSE Str(state), query |-> Missing]

\* line 349: {"state": state} if state else {"query": request.query}; of each key the
\* value, Missing for the key that is absent
search_args(state, q) ==
    IF falsy(state) THEN [state |-> Missing, query |-> Str(q)]
    ELSE [state |-> Str(state), query |-> Missing]

\* lines 352-360: the payload; the MCP server reads the state argument only
payload(arguments) ==
    JsonrpcBody("object", JsonNumber, Str("tools/call"), "object", Str("doctor_search"),
                "object", arguments.state)

\* lines 369-432: the post, the reading of its answer and the handlers
mcp_outcome(x) ==
    IF x.kind = "raise"
    THEN CASE x.class = "TimeoutException" -> HTTPException(504, "MCP server timeout")
           [] x.class = "RequestError" ->
                HTTPException(503, "Cannot connect to MCP server: " \o x.error)
           [] OTHER -> HTTPException(500, "Internal server error: " \o x.error)
    ELSE IF x.status # 200 THEN HTTPException(500, "MCP server error")
    ELSE IF x.json = "invalid" THEN HTTPException(500, "Internal server error: Expecting value")
    ELSE IF x.response.has_result /\ ~x.response.tools
    THEN IF x.response.content # <<>>
         THEN HealthResponse(x.response.content[1].text, TRUE)
         ELSE HealthResponse("Invalid response format from MCP server", FALSE)
    ELSE HealthResponse("No results found", FALSE)

\* the health server's answer as the orchestrator's client.post sees it
exchange_of(response) ==
    IF response.status = 200 THEN HttpAnswer(200, "field", Str(response.result))
    ELSE HttpAnswer(response.status, "no_field", JsonNull)

HealthLocations == {"", "Atlanta", "GA", "Miami, FL"}
HealthQueries == {"", "  ", "find a doctor", "I need a cardiologist", "doctors in CA"}
HealthAgents == {"hospital", "doctor", "auto"}

McpFailures ==
    {McpRaised("TimeoutException", "timed out"),
     McpRaised("RequestError", "All connection attempts failed"),
     McpRaised("Exception", "Connection refused")}
    \cup {McpAnswer(500, "invalid", NoJsonrpcResponse),
          McpAnswer(200, "invalid", NoJsonrpcResponse),
          McpAnswer(200, "empty_content", JsonrpcResult(JsonNumber, <<>>, FALSE))}

HealthRequest(loc, q, agent) ==
    [pc |-> "request", location |-> loc, query |-> q, agent |-> agent, state |-> PyNone,
     search_args |-> [state |-> Missing, query |-> Missing], payload |-> NoBody,
     mcp_response |-> NoMcpExchange, response |-> NoHealthResponse,
     route |-> NoResult]

InitHealth ==
    /\ health \in {HealthRequest(loc, q, agent) :
                     loc \in HealthLocations, q \in HealthQueries, agent \in HealthAgents}
    /\ calls = <<>> /\ chat_messages = <<>> /\ fallback_returns = {}
    /\ mcp = NoRequest /\ web = NoRequest
    /\ prompt = PyNone /\ epc = "off" /\ state_code = PyNone /\ step = "none"
    /\ ClassifyIdle
    /\ OrchestratorIdle

outside_health == <<single_call_vars, calls, chat_messages, fallback_returns, mcp, web>>

\* lines 324-334: the validation rejects the request
HealthRejects ==
    /\ health.pc = "request"
    /\ strip(health.query) = "" \/ health.agent \notin {"hospital", "doctor"}
    /\ health' = [health EXCEPT
          !.pc = "answered",
          !.response = IF strip(health.query) = ""
                       THEN HTTPException(400, "Query cannot be empty")
                       ELSE HTTPException(400, "Agent must be 'hospital' or 'doctor'")]
    /\ UNCHANGED outside_health

\* lines 338-366: the state is extracted and the payload prepared, up to the post
HealthPosts ==
    /\ health.pc = "request"
    /\ strip(health.query) # "" /\ health.agent \in {"hospital", "doctor"}
    /\ LET state == extract_state_from_prompt(health.location \o " " \o health.query)
           arguments == search_args(state, health.query)
       IN  health' = [health EXCEPT !.pc = "mcp_post", !.state = state,
                                    !.search_args = arguments,
                                    !.payload = payload(arguments)]
    /\ UNCHANGED outside_health

\* the post returns x, and the endpoint answers
McpReturns(x) ==
    /\ health.pc = "mcp_post"
    /\ health' = [health EXCEPT !.pc = "answered", !.mcp_response = x,
                                !.response = mcp_outcome(x)]
    /\ UNCHANGED outside_health

\* the MCP server handles the payload and answers
McpAnswers == health.pc = "mcp_post" /\ McpReturns(answer_of_mcp(health.payload))

\* the MCP server is not reached, or answers something else
McpFails(x) == health.pc = "mcp_post" /\ McpReturns(x)

\* route_to_health_agent of the orchestrator, which sent the request, gets the answer
RouteReceives ==
    /\ health.pc = "answered"
    /\ health.agent = "hospital"
    /\ health' = [health EXCEPT !.pc = "routed",
                                !.route = health_result(exchange_of(health.response))]
    /\ UNCHANGED outside_health

NextHealth ==
    \/ HealthRejects
    \/ HealthPosts
    \/ McpAnswers
    \/ \E x \in McpFailures : McpFails(x)
    \/ RouteReceives

SpecHealth == InitHealth /\ [][NextHealth]_vars

(***************************************************************************)
(* The web client's POST /query (client/web_client.py, query)              *)
(***************************************************************************)
(* What client.post(ORCHESTRATOR_URL/query) does: it raises an exception   *)
(* of a class (an httpx.RequestError, or an exception outside httpx), or   *)
(* answers with a status, a text and, for status 200, a body: "response" a *)
(* JSON object with the fields of the orchestrator's QueryResponse, "list" *)
(* JSON that is no object, "invalid" no JSON, "bad_fields" an object whose *)
(* result is no text.                                                      *)
OrchestratorRaised(class, e) ==
    [kind |-> "raise", class |-> class, error |-> e, status |-> 0, text |-> "", body |-> "",
     value |-> NoResponse]
OrchestratorAnswer(status, text, body, value) ==
    [kind |-> "http", class |-> "", error |-> "", status |-> status, text |-> text,
     body |-> body, value |-> value]
NoOrchestratorExchange == OrchestratorAnswer(0, "", "", NoResponse)

\* the web client's answer: the status and the fields of its QueryResponse
WebResponse(ok, r, e, agent, c, why) ==
    [status |-> 200, success |-> ok, result |-> r, error |-> e, agent_used |-> agent,
     confidence |-> c, reasoning |-> why]
\* success=False, error=..., agent_used="error": the other fields keep their defaults
WebError(e) == WebResponse(FALSE, PyNone, e, "error", "0.0", "")
\* the request does not validate against QueryRequest
UnprocessableEntity ==
    [status |-> 422, success |-> FALSE, result |-> PyNone, error |-> PyNone,
     agent_used |-> "", confidence |-> "", reasoning |-> ""]
NoWebResponse ==
    [status |-> 0, success |-> FALSE, result |-> PyNone, error |-> PyNone,
     agent_used |-> "", confidence |-> "", reasoning |-> ""]

\* lines 82-137: the post, the reading of its answer and the two handlers
web_outcome(x) ==
    IF x.kind = "raise"
    THEN IF x.class = "RequestError"
         THEN WebError("Connection error: " \o x.error)
         ELSE WebError("Unexpected error: " \o x.error)
    ELSE IF x.status = 200
    THEN CASE x.body = "response" ->
                WebResponse(x.value.success, x.value.result, PyNone, x.value.agent_used,
                            x.value.confidence, x.value.reasoning)
           [] x.body = "list" ->
                WebError("Unexpected error: 'list' object has no attribute 'get'")
           [] x.body = "bad_fields" ->
                WebError("Unexpected error: 1 validation error for QueryResponse")
           [] OTHER -> WebError("Unexpected error: Expecting value")
    ELSE WebError("Orchestrator error: "
                  \o (IF x.text # "" THEN x.text ELSE "HTTP " \o ToString(x.status)))

WebLocations == {"", "atlanta", "GA"}
WebQueries == {"", "I need a cardiologist", "what is my deductible"}
WebAgents == {"auto", "doctor", "insurance"}

OrchestratorOutcomes ==
    {OrchestratorRaised("RequestError", "All connection attempts failed"),
     OrchestratorRaised("Exception", "Connection failed")}
    \cup {OrchestratorAnswer(500, "Internal Server Error", "", NoResponse),
          OrchestratorAnswer(400, "{\"detail\":\"Query cannot be empty\"}", "", NoResponse),
          OrchestratorAnswer(503, "", "", NoResponse)}
    \cup {OrchestratorAnswer(200, "", b, NoResponse) : b \in {"list", "invalid", "bad_fields"}}
    \cup {OrchestratorAnswer(200, "", "response", r) :
            r \in {QueryResponse("Test AI response from orchestrator", TRUE, "health_doctor",
                                 "0.8", "Query contains health/medical keywords"),
                   QueryResponse("Health agent error: 500", FALSE, "health_doctor", "1.0",
                                 "User forced routing to health agent"),
                   orchestration_error("'result'").response}}

WebRequest(loc, q, agent) ==
    [pc |-> "request", location |-> loc, query |-> q, agent |-> agent,
     exchange |-> NoOrchestratorExchange, response |-> NoWebResponse]

InitWeb ==
    /\ web \in {WebRequest(loc, q, agent) :
                  loc \in WebLocations, q \in WebQueries, agent \in WebAgents}
    /\ calls = <<>> /\ chat_messages = <<>> /\ fallback_returns = {}
    /\ mcp = NoRequest /\ health = NoRequest
    /\ prompt = PyNone /\ epc = "off" /\ state_code = PyNone /\ step = "none"
    /\ ClassifyIdle
    /\ OrchestratorIdle

outside_web == <<single_call_vars, calls, chat_messages, fallback_returns, mcp, health>>

\* QueryRequest: location and query have min_length 1
valid_request(w) == Len(w.location) >= 1 /\ Len(w.query) >= 1

\* the framework rejects a request that does not validate
WebRejects ==
    /\ web.pc = "request"
    /\ ~valid_request(web)
    /\ web' = [web EXCEPT !.pc = "answered", !.response = UnprocessableEntity]
    /\ UNCHANGED outside_web

\* lines 81-93: the request is forwarded to the orchestrator
WebPosts ==
    /\ web.pc = "request"
    /\ valid_request(web)
    /\ web' = [web EXCEPT !.pc = "post"]
    /\ UNCHANGED outside_web

\* the post returns x, and the endpoint answers
OrchestratorReturns(x) ==
    /\ web.pc = "post"
    /\ web' = [web EXCEPT !.pc = "answered", !.exchange = x, !.response = web_outcome(x)]
    /\ UNCHANGED outside_web

NextWeb ==
    \/ WebRejects
    \/ WebPosts
    \/ \E x \in OrchestratorOutcomes : OrchestratorReturns(x)

SpecWeb == InitWeb /\ [][NextWeb]_vars

(***************************************************************************)
(* Vocabulary of the claims about extract_state_from_prompt                *)
(***************************************************************************)
\* text.split(): the whitespace-separated words of a text
RECURSIVE split_from(_, _)
split_from(s, pos) ==
    IF pos > Len(s) THEN <<>>
    ELSE IF IsSpace(CharAt(s, pos)) THEN split_from(s, pos + 1)
    ELSE LET ends == {e \in pos..Len(s) :
                        /\ \A k \in pos..e : ~IsSpace(CharAt(s, k))
                        /\ (e = Len(s) \/ IsSpace(CharAt(s, e + 1)))}
             e == CHOOSE x \in ends : TRUE
         IN  <<SubSeq(s, pos, e)>> \o split_from(s, e + 1)

WordsOf(s) == split_from(s, 1)

IsLetter(c) == c \in UpperSet \/ c \in LowerSet

\* the two-letter tokens of a text: two letters with no word character on either side
TwoLetterTokens(s) ==
    {SubSeq(s, i, i + 1) : i \in {k \in 1..(Len(s) - 1) :
        /\ IsLetter(CharAt(s, k)) /\ IsLetter(CharAt(s, k + 1))
        /\ (k = 1 \/ ~IsWordChar(CharAt(s, k - 1)))
        /\ (k + 1 = Len(s) \/ ~IsWordChar(CharAt(s, k + 2)))}}

ContainsStateName(s) ==
    LET low == lower(s) IN \E i \in 1..Len(state_names) : In(state_names[i][1], low)

\* a word that is, in any letter case, a valid state code and no excluded word
IsCodeWord(w) == Len(w) = 2 /\ upper(w) \in valid_state_codes /\ lower(w) \notin excluded_words

\* a code word stands next to a context keyword in one of the listed forms:
\* in CA, from CA, state CA, of CA, (live) in CA, (doctors) in CA, CA doctor(s), CA area, CA state
ContextAdjacent(s) ==
    LET ws == WordsOf(s) IN
    \E i \in 1..(Len(ws) - 1) :
        \/ lower(ws[i]) \in {"in", "from", "state", "of"} /\ IsCodeWord(ws[i + 1])
        \/ IsCodeWord(ws[i]) /\ lower(ws[i + 1]) \in {"doctor", "doctors", "area", "state"}

Returned == epc = "returned"

\* the table name of a code
NameOfCode(code) == state_names[CHOOSE i \in 1..Len(state_names) : state_names[i][2] = code][1]

\* C7 as stated: a returned code is a valid state code and its lowercase form is
\* no excluded common word, whichever step produced it
C7_AsStated ==
    (Returned /\ state_code # PyNone) =>
        (state_code \in valid_state_codes /\ lower(state_code) \notin excluded_words)

\* C7 amended: a returned code is a valid state code; when the pattern step or the
\* standalone step produced it, its lowercase form is no excluded common word; the
\* full-name step also returns the codes that are excluded words (IN, ME, OR), and
\* only for a text that contains the state's name
C7_ReturnedCodeValid ==
    (Returned /\ state_code # PyNone) =>
        /\ state_code \in valid_state_codes
        /\ step \in {"name", "pattern", "standalone"}
        /\ (step # "name" => lower(state_code) \notin excluded_words)
        /\ (lower(state_code) \in excluded_words => In(NameOfCode(state_code), lower(prompt)))

C7_Witness ==
    \/ Returned /\ step = "name" /\ state_code = "IN"
    \/ Returned /\ step = "standalone" /\ state_code = "CA" /\ "OR" \in TwoLetterTokens(prompt)

\* C8 as stated: with no full state name in the text and a code word next to a
\* context keyword, a code is returned, however many words the text has
C8_ContextCodeReturned ==
    (Returned /\ prompt # PyNone /\ ~ContainsStateName(prompt) /\ ContextAdjacent(prompt)) =>
        state_code \in valid_state_codes

\* C9: a text whose lowercased form contains a table name, and no other table
\* name at least as long, yields that name's code
C9_LongestNameDecides ==
    (Returned /\ prompt # PyNone) =>
        LET low == lower(prompt) IN
        \A i \in 1..Len(state_names) :
            ( /\ In(state_names[i][1], low)
              /\ \A j \in 1..Len(state_names) :
                    (j # i /\ In(state_names[j][1], low))
                        => Len(state_names[j][1]) < Len(state_names[i][1]) )
            => (state_code = state_names[i][2] /\ step = "name")

C9_Witness ==
    /\ Returned /\ state_code = "WV"
    /\ In("virginia", lower(prompt)) /\ In("arkansas", lower(prompt))
    /\ ~In("west virginia", prompt)

\* C10: None is returned for a text of more than 5 words with no full state name and
\* no code word next to a context keyword (whatever two-letter tokens it holds), for
\* the empty string, for None, and for a text that holds no full state name and whose
\* two-letter tokens are no valid codes
C10_NoneReturned ==
    Returned =>
        ( ( \/ prompt = PyNone
            \/ prompt = ""
            \/ /\ split_len(prompt) > MaxStandaloneWords
               /\ ~ContainsStateName(prompt)
               /\ ~ContextAdjacent(prompt)
            \/ /\ ~ContainsStateName(prompt)
               /\ \A t \in TwoLetterTokens(prompt) : upper(t) \notin valid_state_codes )
          => state_code = PyNone )

C10_Witness ==
    /\ Returned /\ state_code = PyNone /\ prompt # PyNone
    /\ split_len(prompt) > MaxStandaloneWords
    /\ "CA" \in TwoLetterTokens(prompt)
    /\ ~ContextAdjacent(prompt)

\* the excluded words that are state codes
ExcludedCodes == {"IN", "ME", "OR"}

\* the text holds the word as a bare two-letter token, in any letter case
BareToken(s, code) == \E t \in TwoLetterTokens(s) : upper(t) = code

\* C18: a bare two-letter occurrence of an excluded common word is never returned
\* as a state code by the pattern step or the standalone step, also when the word
\* is a valid state code (IN, ME, OR); such a code is returned by the full-name
\* step only, for a text that contains the state's name
C18_ExcludedWordNeverACode ==
    (Returned /\ prompt # PyNone) =>
        \A code \in ExcludedCodes :
            /\ (BareToken(prompt, code) /\ ~In(NameOfCode(code), lower(prompt)))
                  => state_code # code
            /\ state_code = code
                  => (step = "name" /\ In(NameOfCode(code), lower(prompt)))

\* a short text with the bare token OR and no state name: nothing is returned
C18_Witness ==
    /\ Returned
    /\ BareToken(prompt, "OR")
    /\ split_len(prompt) <= MaxStandaloneWords
    /\ \A t \in TwoLetterTokens(prompt) : upper(t) \in ExcludedCodes
    /\ ~ContainsStateName(prompt)
    /\ state_code = PyNone

\* C19: the standalone step returns a code only for a bare two-letter token that
\* is uppercase in the text as given; a two-letter word in lowercase or mixed
\* case yields no code
C19_StandaloneNeedsUppercase ==
    (Returned /\ step = "standalone") => state_code \in TwoLetterTokens(prompt)

\* the standalone step returned a code for a text without any uppercase letter
C19_LowercaseWordReturned ==
    /\ Returned
    /\ step = "standalone"
    /\ prompt = lower(prompt)
    /\ state_code = "HI"

\* the major-city aliases and the states they imply
CityAliases == << <<"atlanta", "GA">>, <<"los angeles", "CA">> >>

\* C20: for a text that contains a major-city alias and no full state name,
\* extract_state_from_prompt (the extractor of the /query endpoint) returns the
\* state the city implies
C20_CityImpliesState ==
    (Returned /\ prompt # PyNone /\ ~ContainsStateName(prompt)) =>
        \A i \in 1..Len(CityAliases) :
            ( /\ In(CityAliases[i][1], lower(prompt))
              /\ \A j \in 1..Len(CityAliases) :
                    j # i => ~In(CityAliases[j][1], lower(prompt)) )
            => state_code = CityAliases[i][2]

\* a text that names Atlanta and holds no two-letter token: nothing is returned
C20_CityNotRecognised ==
    /\ Returned
    /\ In("atlanta", lower(prompt))
    /\ ~ContainsStateName(prompt)
    /\ TwoLetterTokens(prompt) = {}
    /\ state_code = PyNone

(***************************************************************************)
(* Claims about the classifier (SpecClassify)                              *)
(***************************************************************************)
ProviderPhraseCount(q) == count_in(provider_seeking_phrases, lower(q))
StrongInsuranceCount(q) == count_in(strong_insurance_phrases, lower(q))
InsuranceKeywordCount(q) == count_in(insurance_keywords, lower(q))
HealthKeywordCount(q) == count_in(health_keywords, lower(q))

\* C1: a query whose lowercased text contains n > 0 provider-seeking phrases gets
\* (HEALTH_DOCTOR, 0.8, "Provider seeking phrases found: n") from _fallback_classify,
\* whatever strong-insurance phrases and insurance keywords it also contains
C1_ProviderSeekingWins ==
    (cpc = "fallback_returned" /\ ProviderPhraseCount(query) > 0) =>
        classification = [raised |-> FALSE,
                          query_type |-> HEALTH_DOCTOR,
                          confidence |-> "0.8",
                          reasoning |-> "Provider seeking phrases found: "
                                          \o ToString(ProviderPhraseCount(query))]

C1_Witness ==
    /\ cpc = "fallback_returned"
    /\ ProviderPhraseCount(query) = 2
    /\ StrongInsuranceCount(query) > 0
    /\ InsuranceKeywordCount(query) > 0
    /\ classification.query_type = HEALTH_DOCTOR

\* C5: when the router LLM call raises, or its reply holds neither label after
\* upper-casing, classify_query returns what _fallback_classify(query) returns,
\* whatever the location, and does not raise
LLMGaveNoLabel ==
    \/ llm.kind # "reply"
    \/ ~In("HEALTH_DOCTOR", upper(llm.content)) /\ ~In("INSURANCE", upper(llm.content))

C5_LLMFailureFallsBack ==
    (cpc = "classify_returned" /\ LLMGaveNoLabel) =>
        (~classification.raised /\ classification = _fallback_classify(query))

C5_Witness ==
    /\ cpc = "classify_returned"
    /\ llm.kind = "raise"
    /\ location # ""
    /\ classification.query_type = INSURANCE
    /\ classification.confidence = "0.7"

LocatingWords == <<"find", "looking for", "need", "that accepts">>

\* the query names a provider together with a locating word
LocatesProvider(q) == HealthKeywordCount(q) > 0 /\ any_in(LocatingWords, lower(q))

\* C12: a query that asks to locate a provider (a health keyword together with
\* 'find', 'looking for', 'need' or 'that accepts') gets HEALTH_DOCTOR at
\* confidence 0.8 with a reasoning containing "Provider seeking phrases found:"
\* from _fallback_classify, whatever insurance wording it also contains
C12_ProviderLocatingIsHealth ==
    (cpc = "fallback_returned" /\ LocatesProvider(query)) =>
        /\ classification.query_type = HEALTH_DOCTOR
        /\ classification.confidence = "0.8"
        /\ In("Provider seeking phrases found:", classification.reasoning)

\* the provider-locating query of the test suite that is sent to the insurance agent
C12_SentToInsurance ==
    /\ cpc = "fallback_returned"
    /\ query = "need specialist covered by my plan"
    /\ LocatesProvider(query)
    /\ classification.query_type = INSURANCE

\* the query reaches keyword scoring with both scores above 0
MixedSignal(q) ==
    /\ ProviderPhraseCount(q) = 0
    /\ StrongInsuranceCount(q) = 0
    /\ InsuranceKeywordCount(q) > 0
    /\ HealthKeywordCount(q) > 0

HasSeekingWord(q) == any_in(<<"find", "looking for", "need a", "search for">>, lower(q))
HasCoverageWord(q) ==
    any_in(<<"covered", "cover", "pay", "benefits", "reimburse">>, lower(q))

\* the reasoning cites both scores
CitesBothScores(q, reasoning) ==
    /\ In("health=" \o ToString(HealthKeywordCount(q)), reasoning)
    /\ In("insurance=" \o ToString(InsuranceKeywordCount(q)), reasoning)

C13_CoverageReached ==
    /\ cpc = "fallback_returned"
    /\ MixedSignal(query)
    /\ ~HasSeekingWord(query)
    /\ HasCoverageWord(query)
    /\ classification.query_type = INSURANCE

\* the lowercased query holds no phrase and no keyword of the four lists
NoKeyword(q) ==
    /\ ProviderPhraseCount(q) = 0
    /\ StrongInsuranceCount(q) = 0
    /\ InsuranceKeywordCount(q) = 0
    /\ HealthKeywordCount(q) = 0

\* C14: _fallback_classify returns (HEALTH_DOCTOR, 0.3, "Default to health agent")
\* exactly for the queries without any phrase or keyword of the four lists; every
\* other query gets confidence 0.7 or 0.8; no query gets the category UNKNOWN
C14_DefaultIffNoKeyword ==
    cpc = "fallback_returned" =>
        /\ (classification = Returns(HEALTH_DOCTOR, "0.3", "Default to health agent"))
              <=> NoKeyword(query)
        /\ ~NoKeyword(query) => classification.confidence \in {"0.7", "0.8"}
        /\ classification.query_type # UNKNOWN

C14_Witness ==
    /\ cpc = "fallback_returned"
    /\ query = "Hello there"
    /\ NoKeyword(query)
    /\ classification.confidence = "0.3"

\* the router LLM replied, and its reply, upper-cased, contains the label
ReplyContains(label) == llm.kind = "reply" /\ In(label, upper(llm.content))

\* C15: when the LLM's reply, upper-cased, contains HEALTH_DOCTOR, classify_query
\* returns (HEALTH_DOCTOR, 0.8, "Query contains health/medical keywords"), also
\* when the reply contains INSURANCE too; when it contains INSURANCE and not
\* HEALTH_DOCTOR, it returns (INSURANCE, 0.8, "Query contains insurance-related
\* keywords"); the query decides nothing in either case
C15_LabelDecides ==
    cpc = "classify_returned" =>
        /\ ReplyContains("HEALTH_DOCTOR") =>
              classification =
                  Returns(HEALTH_DOCTOR, "0.8", "Query contains health/medical keywords")
        /\ (ReplyContains("INSURANCE") /\ ~ReplyContains("HEALTH_DOCTOR")) =>
              classification =
                  Returns(INSURANCE, "0.8", "Query contains insurance-related keywords")

\* a reply with both labels, for a query the rule tiers would call INSURANCE
C15_Witness ==
    /\ cpc = "classify_returned"
    /\ ReplyContains("HEALTH_DOCTOR")
    /\ ReplyContains("INSURANCE")
    /\ _fallback_classify(query).query_type = INSURANCE
    /\ classification.query_type = HEALTH_DOCTOR

\* a reply with the insurance label, for a query the rule tiers would call HEALTH_DOCTOR
C15_InsuranceLabelReached ==
    /\ cpc = "classify_returned"
    /\ ReplyContains("INSURANCE")
    /\ ~ReplyContains("HEALTH_DOCTOR")
    /\ _fallback_classify(query).query_type = HEALTH_DOCTOR
    /\ classification.query_type = INSURANCE

(***************************************************************************)
(* Claims about process_query                                              *)
(***************************************************************************)
StartsWith(s, prefix) == Len(s) >= Len(prefix) /\ SubSeq(s, 1, Len(prefix)) = prefix

ForcedValues == {"doctor", "health", "insurance"}

\* the call has got past the decision (forced, or classify_query returned)
Decided == pc \notin {"off", "start", "classify"} /\ decision # NotForced

\* the call has got past the dispatch
Dispatched == Decided /\ pc # "dispatch"

(* C2: whatever the classifier and the routes do, process_query does not   *)
(* raise to its caller and a finished call has returned a QueryResponse;   *)
(* when an exception reached the top-level handler, the response is        *)
(* success=False, result starting with "Orchestration error: ",            *)
(* agent_used "error", confidence 0.0, reasoning "Error in orchestration". *)
C2_NeverRaises ==
    /\ outcome # "raised"
    /\ pc = "done" =>
          /\ outcome = "returned"
          /\ answer # NoResponse
          /\ exception # PyNone =>
                /\ answer.success = FALSE
                /\ StartsWith(answer.result, "Orchestration error: ")
                /\ answer.agent_used = "error"
                /\ answer.confidence = "0.0"
                /\ answer.reasoning = "Error in orchestration"

\* a call whose classifier raised has finished
C2_Witness ==
    /\ pc = "done"
    /\ exception = "Classification error"
    /\ answer.agent_used = "error"

(* C3: classify_query is called if and only if force_agent is none of      *)
(* 'doctor', 'health', 'insurance' (exact match), and then exactly once;   *)
(* 'doctor' and 'health' decide HEALTH_DOCTOR, 1.0, "Forced to health      *)
(* agent"; 'insurance' decides INSURANCE, 1.0, "Forced to insurance agent" *)
(* and the insurance route is the one called, whatever the query.          *)
C3_ForcedSkipsClassifier ==
    /\ pc = "start" => classify_calls = 0
    /\ pc \notin {"off", "start"} =>
          /\ classify_calls = IF force_agent \in ForcedValues THEN 0 ELSE 1
          /\ force_agent \in {"doctor", "health"} =>
                decision = Returns(HEALTH_DOCTOR, "1.0", "Forced to health agent")
          /\ force_agent = "insurance" =>
                /\ decision = Returns(INSURANCE, "1.0", "Forced to insurance agent")
                /\ pc # "dispatch" =>
                      insurance_calls = << <<query>> >> /\ health_calls = <<>>

\* forced to insurance with the empty query: dispatched, finished, never classified
C3_Witness ==
    /\ pc = "done"
    /\ force_agent = "insurance"
    /\ query = ""
    /\ classify_calls = 0
    /\ insurance_calls = << <<"">> >>

(* C4: at most one route is ever called; a call that finishes without the  *)
(* top-level error result has called exactly one route exactly once: the   *)
(* insurance route with the query alone when the decision is INSURANCE,    *)
(* the health route with location and query for any other decision; a      *)
(* call whose classification raised has called neither.                    *)
C4_ExactlyOneRoute ==
    /\ Len(health_calls) + Len(insurance_calls) <= 1
    /\ (pc = "done" /\ exception = PyNone) =>
          IF decision.query_type = INSURANCE
          THEN insurance_calls = << <<query>> >> /\ health_calls = <<>>
          ELSE health_calls = << <<location, query>> >> /\ insurance_calls = <<>>
    /\ (pc \in {"except", "done"} /\ decision = NotForced) =>
          health_calls = <<>> /\ insurance_calls = <<>>

\* a query classified UNKNOWN went to the health route with its location
C4_Witness ==
    /\ pc = "done"
    /\ exception = PyNone
    /\ decision.query_type = UNKNOWN
    /\ location = "Atlanta"
    /\ health_calls = << <<"Atlanta", query>> >>

(* C6: every process_query call eventually returns, even when the LLM, the *)
(* health agent or the insurance agent stops answering at any point.       *)
C6_EveryCallReturns == <>(pc = "done")

\* the calls in which the insurance agent is never waited for do return
CallsBesideInsuranceRecvReturn == <>(pc \in {"done", "ins_recv"})

\* the insurance agent accepted the connection and got the query
AwaitingInsuranceReply ==
    pc = "ins_recv" /\ outcome = "pending" /\ insurance_calls = << <<query>> >>

\* the health-agent call raised (transport error, timeout, body that cannot be
\* decoded), or was answered with a status other than 200
HealthCallFailed ==
    /\ health_calls # <<>>
    /\ \/ exchange.kind = "raise"
       \/ exchange.kind = "http" /\ exchange.status # 200
       \/ exchange.kind = "http" /\ exchange.body = "invalid"

(* C16: when the health-agent call raises or is answered with a non-200    *)
(* status, process_query does not raise and returns success=False,         *)
(* agent_used "health_doctor", a message that describes the failure, and   *)
(* the confidence and reasoning of the routing decision.                   *)
C16_HealthFailureReported ==
    /\ HealthCallFailed => outcome # "raised" /\ pc \in {"respond", "done"}
    /\ (HealthCallFailed /\ pc = "done") =>
          /\ outcome = "returned"
          /\ answer.success = FALSE
          /\ answer.agent_used = "health_doctor"
          /\ \/ StartsWith(answer.result, "Error contacting health agent: ")
             \/ StartsWith(answer.result, "Health agent error: ")
          /\ answer.confidence = decision.confidence
          /\ answer.reasoning = decision.reasoning

\* a classified query whose health agent answered 500 has been answered
C16_Witness ==
    /\ pc = "done"
    /\ HealthCallFailed
    /\ exchange.status = 500
    /\ decision.confidence = "0.8"
    /\ answer.result = "Health agent error: 500"
    /\ answer.confidence = "0.8"

\* the same for a call that timed out
C16_TimeoutReached ==
    /\ pc = "done"
    /\ HealthCallFailed
    /\ exchange.error = "ReadTimeout"
    /\ answer.success = FALSE

\* the health agent answered with an HTTP error status
HealthAnsweredError ==
    health_calls # <<>> /\ exchange.kind = "http" /\ exchange.status # 200

\* the connection to the insurance agent failed
InsuranceConnectionFailed == insurance_calls # <<>> /\ exchange.kind = "raise"

Carries(res, key) == key \in DOMAIN res

(* C17: the dict route_to_health_agent returns for an HTTP error status    *)
(* has success False and an "error" entry; the dict                        *)
(* route_to_insurance_agent returns for a failed connection has success    *)
(* False and an "error" entry, or a message that contains "Cannot reach    *)
(* insurance agent".                                                       *)
C17_ErrorEntryCarried ==
    /\ HealthAnsweredError =>
          result.success = FALSE /\ Carries(result, "error")
    /\ InsuranceConnectionFailed =>
          /\ result.success = FALSE
          /\ \/ Carries(result, "error")
             \/ In("Cannot reach insurance agent", result.result.v)

\* what the routes do return for these failures
C17_ErrorResultsReturned ==
    /\ HealthAnsweredError =>
          result = AgentResult(FALSE,
                       Str("Health agent error: " \o ToString(exchange.status)),
                       "health_doctor")
    /\ InsuranceConnectionFailed =>
          result = AgentResult(FALSE,
                       Str("Insurance agent temporarily unavailable: " \o exchange.error),
                       "insurance")

C17_InsuranceFailureReached ==
    InsuranceConnectionFailed /\ exchange.error = "Connection refused"

ReachesScoring(q) == ProviderPhraseCount(q) = 0 /\ StrongInsuranceCount(q) = 0

InsuranceKeywordsFound(q) ==
    Returns(INSURANCE, "0.7", "Insurance keywords found: " \o ToString(InsuranceKeywordCount(q)))

HealthKeywordsFound(q) ==
    Returns(HEALTH_DOCTOR, "0.7", "Health keywords found: " \o ToString(HealthKeywordCount(q)))

\* the mixed-signal branch returns for the query
MixedContextReturns(q) == MixedSignal(q) /\ (HasSeekingWord(q) \/ HasCoverageWord(q))

C28_HealthOnlyReached ==
    /\ cpc = "fallback_returned"
    /\ ReachesScoring(query)
    /\ InsuranceKeywordCount(query) = 0
    /\ classification = HealthKeywordsFound(query)

(***************************************************************************)
(* Further claims about process_query (Spec)                               *)
(***************************************************************************)
\* the call ran classify_query and the routes themselves, not test doubles
RealCall ==
    /\ forced_decision(force_agent) # NotForced \/ classification # NoClassification
    /\ exchange.kind \notin {"stub", "none"}

ErrorResponseFields ==
    /\ answer.success = FALSE
    /\ answer.confidence = "0.0"
    /\ answer.reasoning = "Error in orchestration"

\* C29: every QueryResponse process_query returns has agent_used in
\* {health_doctor, insurance, error}; agent_used is error exactly when
\* success is False, confidence is 0.0 and reasoning is "Error in
\* orchestration"; every other response has a confidence among 0.3, 0.7, 0.8,
\* 1.0 and has agent_used insurance exactly when the decision was INSURANCE
C29_ResponseWellFormed ==
    (outcome = "returned" /\ RealCall) =>
        /\ answer.agent_used \in {"health_doctor", "insurance", "error"}
        /\ (answer.agent_used = "error") <=> ErrorResponseFields
        /\ answer.agent_used # "error" =>
              /\ answer.confidence \in {"0.3", "0.7", "0.8", "1.0"}
              /\ (answer.agent_used = "insurance") <=> (decision.query_type = INSURANCE)

\* a classified call whose route returned a result that is no text ended in the
\* error response
C29_Witness ==
    /\ outcome = "returned" /\ RealCall
    /\ classification # NoClassification
    /\ answer.agent_used = "error"
    /\ ErrorResponseFields

\* a call that failed in its route still names the agent
C29_FailureNamesAgent ==
    /\ outcome = "returned" /\ RealCall
    /\ answer.success = FALSE
    /\ answer.agent_used = "insurance"
    /\ answer.confidence \in {"0.8", "1.0"}

(***************************************************************************)
(* Claims about the MCP server (SpecMcp)                                   *)
(***************************************************************************)
\* the tool function has returned for the text mcp.state
Searched == mcp.pc = "returned" /\ mcp.op = "search"

\* the directory entries whose address state is the code
EntriesOfState(code) == SelectSeq(doctors, LAMBDA doc : doc.state = code)

\* the input upper-cased and stripped
CodeAskedFor(s) == strip(upper(s))

\* C23 as stated: doctor_search(state) returns exactly the directory entries
\* whose address state equals the upper-cased, stripped input, and for every
\* input matching no entry, the empty string included, a message containing
\* "No doctors found in state:" followed by the code asked for
C23_AsStated ==
    Searched =>
        /\ ~mcp.returned.raised
        /\ IF EntriesOfState(CodeAskedFor(mcp.state)) # <<>>
           THEN mcp.returned.text = str_of_dict(EntriesOfState(CodeAskedFor(mcp.state)))
           ELSE In("No doctors found in state: " \o mcp.state, mcp.returned.text)

\* what the code returns: the entries of the code; "not found in state" for a
\* two-character input without entries; other messages for the empty input and
\* for an input that is not two characters long once stripped
C23_SearchResults ==
    Searched =>
        /\ ~mcp.returned.raised
        /\ EntriesOfState(CodeAskedFor(mcp.state)) # <<>> =>
              mcp.returned.text = str_of_dict(EntriesOfState(CodeAskedFor(mcp.state)))
        /\ (EntriesOfState(CodeAskedFor(mcp.state)) = <<>>
              /\ Len(CodeAskedFor(mcp.state)) = 2) =>
              In("No doctors found in state: " \o mcp.state, mcp.returned.text)
        /\ mcp.state = "" =>
              mcp.returned.text = "No doctors found: state parameter is required"
        /\ (mcp.state # "" /\ Len(CodeAskedFor(mcp.state)) # 2) =>
              In("Invalid state code: " \o mcp.state, mcp.returned.text)

\* the search with the empty string has answered that the parameter is required
C23_EmptyStateAnswered ==
    /\ Searched
    /\ mcp.state = ""
    /\ mcp.returned.text = "No doctors found: state parameter is required"

TwoLetters(s) == Len(s) = 2 /\ IsLetter(CharAt(s, 1)) /\ IsLetter(CharAt(s, 2))

\* the letter-casings of a two-letter text
Casings(s) ==
    {a \o b : a \in {lower_char(CharAt(s, 1)), upper_char(CharAt(s, 1))},
              b \in {lower_char(CharAt(s, 2)), upper_char(CharAt(s, 2))}}

\* C24 as stated: every letter-casing of a two-letter code gives the same
\* result string
C24_AsStated ==
    (Searched /\ TwoLetters(mcp.state)) =>
        \A t \in Casings(mcp.state) : doctor_search(Str(t)) = mcp.returned

\* C24: every letter-casing of a two-letter code that has entries in the
\* directory gives the same result string, the entries of the code; for a
\* code without entries every casing gives the "No doctors found in state"
\* message, which repeats the input as it was typed
C24_CasingsOfListedCode ==
    (Searched /\ TwoLetters(mcp.state)) =>
        IF EntriesOfState(upper(mcp.state)) # <<>>
        THEN \A t \in Casings(mcp.state) :
                /\ doctor_search(Str(t)) = mcp.returned
                /\ mcp.returned.text = str_of_dict(EntriesOfState(upper(mcp.state)))
        ELSE \A t \in Casings(mcp.state) :
                In("No doctors found in state: " \o t, doctor_search(Str(t)).text)

\* the search with the mixed-case code of Georgia has returned its entry
C24_Witness ==
    /\ Searched
    /\ mcp.state = "gA"
    /\ In("DOC001", mcp.returned.text)

\* a POST / has been answered
Answered == mcp.pc = "answered" /\ mcp.op = "post"

\* a JSON-RPC response with the id of the request and exactly one of result, error
WellFormedResponse ==
    /\ mcp.response.status = 200
    /\ mcp.response.id = get(mcp.body.id)
    /\ mcp.response.has_result # mcp.response.has_error

\* what the claim says of the request's cases
CasesAnswered ==
    /\ mcp.body.method = Missing => mcp.response.code = -32600
    /\ (mcp.body.method \notin {Missing, Str("tools/list"), Str("tools/call")}) =>
          mcp.response.code = -32601
    /\ (mcp.body.method = Str("tools/call") /\ mcp.body.params = "object"
          /\ mcp.body.name # Str("doctor_search")) =>
          mcp.response.code = -32601
    /\ (mcp.body.method = Str("tools/call") /\ mcp.body.params = "object"
          /\ mcp.body.name = Str("doctor_search")
          /\ mcp.body.arguments \in {"missing", "object"}
          /\ mcp.body.state.type \in {"str", "missing"}) =>
          /\ mcp.response.has_result
          /\ Len(mcp.response.content) = 1
          /\ mcp.response.content[1].type = "text"

\* C27 as stated: every JSON-RPC request (a JSON object; its params, when
\* present, an object or an array) is answered with its id and exactly one of
\* result and error, -32600 without method, -32601 for an unknown method or
\* tool, and a result with one text item for doctor_search with any text state
C27_AsStated ==
    (Answered /\ mcp.body.json = "object" /\ mcp.body.params # "null"
        /\ mcp.body.arguments # "null") =>
        WellFormedResponse /\ CasesAnswered

\* the same for requests whose params are absent or an object
C27_NamedParamsAnswered ==
    (Answered /\ mcp.body.json = "object" /\ mcp.body.params \in {"missing", "object"}
        /\ mcp.body.arguments # "null") =>
        WellFormedResponse /\ CasesAnswered

\* a tools/call with params by position was answered with status 500
C27_PositionalParamsFail ==
    /\ Answered
    /\ mcp.body.method = Str("tools/call")
    /\ mcp.body.params = "array"
    /\ mcp.response.status = 500

(***************************************************************************)
(* Claims about the health server's POST /query (SpecHealth)               *)
(***************************************************************************)
\* the endpoint has answered after its post to the MCP server raised
PostRaised(class) ==
    /\ health.pc \in {"answered", "routed"}
    /\ health.mcp_response.kind = "raise"
    /\ health.mcp_response.class = class

\* C25 as stated: whenever the call to the MCP server raises because the server
\* cannot be reached, for any exception type other than a timeout, POST /query
\* answers with HTTP 503
C25_AsStated ==
    \A class \in {"RequestError", "Exception"} :
        PostRaised(class) => health.response.status = 503

\* what the handlers do: 504 for a timeout, 503 for another httpx.RequestError,
\* 500 for an exception of any other class
C25_StatusByClass ==
    /\ PostRaised("TimeoutException") => health.response.status = 504
    /\ PostRaised("RequestError") => health.response.status = 503
    /\ PostRaised("Exception") => health.response.status = 500

\* the post raised Exception("Connection refused") and the endpoint answered 500
C25_PlainExceptionIs500 ==
    /\ PostRaised("Exception")
    /\ health.mcp_response.error = "Connection refused"
    /\ health.response.status = 500

StateRequired == "No doctors found: state parameter is required"

\* no state was extracted, the post was made and the MCP server itself answered
NoStateAnswered ==
    /\ health.pc \in {"answered", "routed"}
    /\ health.payload # NoBody
    /\ health.state = PyNone
    /\ health.mcp_response.json = "jsonrpc"

WebAnswered == web.pc = "answered" /\ valid_request(web)

ReportsError(words) ==
    /\ web.response.success = FALSE
    /\ web.response.error # PyNone
    /\ In(words, web.response.error)
    /\ web.response.agent_used = "error"

\* C26 as stated: every valid request is answered with HTTP 200 whatever the
\* orchestrator does; a non-200 status of the orchestrator gives success False
\* with an error containing "Orchestrator error", a connection failure gives
\* success False with an error containing "Connection error"; agent_used is
\* "error" in both
C26_AsStated ==
    WebAnswered =>
        /\ web.response.status = 200
        /\ (web.exchange.kind = "http" /\ web.exchange.status # 200) =>
              ReportsError("Orchestrator error")
        /\ web.exchange.kind = "raise" => ReportsError("Connection error")

\* what the handlers do: "Connection error" for an httpx.RequestError,
\* "Unexpected error" for an exception of any other class
C26_ErrorByClass ==
    WebAnswered =>
        /\ web.response.status = 200
        /\ (web.exchange.kind = "http" /\ web.exchange.status # 200) =>
              ReportsError("Orchestrator error")
        /\ (web.exchange.kind = "raise" /\ web.exchange.class = "RequestError") =>
              ReportsError("Connection error")
        /\ (web.exchange.kind = "raise" /\ web.exchange.class # "RequestError") =>
              ReportsError("Unexpected error")

\* the post raised Exception("Connection failed") and the answer reports an
\* unexpected error
C26_PlainExceptionUnexpected ==
    /\ WebAnswered
    /\ web.exchange.kind = "raise"
    /\ web.exchange.error = "Connection failed"
    /\ web.response.error = "Unexpected error: Connection failed"

=============================================================================
